---- MODULE Spec2Model ----
(***************************************************************************)
(* Client-side ingestion-and-resilience layer of the "try" page:           *)
(*   - ChatbotPanel.handleSubmit and chatWithCopilot (the resilient query  *)
(*     client with its gate timer, hard timeout and fallback request);     *)
(*   - CenterPanel.processFile, the Clear button and the cache load on     *)
(*     mount (the upload intake controller).                               *)
(* JavaScript runs one task at a time: every action below is one task (an  *)
(* event handler, a timer callback, or the continuation of an await).      *)
(***************************************************************************)
EXTENDS Integers, Sequences, FiniteSets, TLC

VARIABLES
    \* ---- ChatbotPanel (CenterPanel.tsx 1049-1116) ----
    messages,        \* useState: the message list
    input,           \* useState: the text field
    isLoading,       \* useState
    delayedError,    \* useState: string | null
    delayedErrorSrc, \* history: the request during which delayedError was observed
    calls,           \* one record per accepted handleSubmit invocation (its locals)
    elapsed,         \* number of requests whose 4 s gate window has passed
    op,              \* history: the task that ran last
    \* ---- CenterPanel (CenterPanel.tsx 25-315, 456-469) ----
    fileMeta,        \* useState: UploadedFileMeta | null
    uploadedFile,    \* useState: File | null
    progress,        \* useState: number
    progressLabel,   \* useState: string
    tablePreview,    \* useState: TablePreviewData | null
    loadedFromCache, \* useState: boolean
    hasStream,       \* whether File.prototype.stream exists in this browser
    procs,           \* one record per processFile invocation (its closure and tasks)
    clears,          \* the Clear clicks: the state of each click's async handler
    cache,           \* the "latest upload" record of lib/indexeddb
    error,           \* useState: string | null (line 36)
    isProcessing,    \* useState: boolean (line 35)
    analyzeResult,   \* useState: AnalyzeResponse | null (line 39)
    jobs,            \* the handleAnalyze invocations that reached their await
    tab,             \* the tab prop (TryPage's state)
    loads,           \* the runs of the cache-load effect (297-315): state, ignore
    parse,           \* a call of tryParseCSV (116-143): its arguments and its result
    cleanResult,     \* useState: CleanResponse | null (line 40)
    piiDetectionResult  \* useState: DetectPIIResponse | null (line 41)

chatVars == <<messages, input, isLoading, delayedError, delayedErrorSrc, calls, elapsed, op>>

uploadVars == <<fileMeta, uploadedFile, progress, progressLabel, tablePreview,
                loadedFromCache, hasStream, procs, clears, cache>>

panelVars == <<error, isProcessing, analyzeResult, jobs, tab, loads, parse,
               cleanResult, piiDetectionResult>>

vars == <<messages, input, isLoading, delayedError, delayedErrorSrc, calls, elapsed, op,
          fileMeta, uploadedFile, progress, progressLabel, tablePreview,
          loadedFromCache, hasStream, procs, clears, cache,
          error, isProcessing, analyzeResult, jobs, tab, loads, parse,
          cleanResult, piiDetectionResult>>

\* ------------------------------------------------------------------ bounds
\* Number of accepted chat submissions explored.
MaxReq == 3
\* Number of processFile invocations explored.
MaxUploads == 2
\* Number of Clear clicks explored.
MaxClears == 1
\* Number of runs of the cache-load effect explored (the first is the mount).
MaxLoads == 2
\* Number of handleAnalyze calls that reach the network.
MaxJobs == 1
\* Number of processFile invocations explored together with the cache load,
\* the tab switches and handleAnalyze.
MaxIntakeUploads == 1
\* Length of the texts tryParseCSV is called with, all of them enumerated.
MaxTextLen == 4
\* Largest maxRows and maxCols tryParseCSV is called with.
MaxCap == 2
\* Number of comma lines that follow the first ten lines of a long text.
MaxLateLines == 2
\* Length of the first field of the texts that exercise the quote handling.
MaxFieldLen == 4

\* ------------------------------------------------------- program constants
\* CenterPanel.tsx 26: PREVIEW_BYTES = 64 * 1024
PREVIEW_BYTES == 65536
\* CenterPanel.tsx 154: f.size > 1024 * 1024 takes the large-file path
LargeThreshold == 1048576
\* CenterPanel.tsx 177, 184, 242: text.slice(0, 4000)
PreviewChars == 4000
\* CenterPanel.tsx 116: tryParseCSV(text, maxRows = 50, maxCols = 40)
DefaultMaxRows == 50
DefaultMaxCols == 40
\* CenterPanel.tsx 119: lines.slice(0, 10)
SniffLines == 10
\* CenterPanel.tsx 212, 230: p < 90 ? p + 5 : p
TickStep == 5
TickCap == 90

\* ------------------------------------------------------------------ values
NULL == "<null>"
\* JavaScript truthiness of a string | null value.
Truthy(s) == s # NULL /\ s # ""

\* The characters String.prototype.trim strips (those that occur here).
WS == {" ", "\t", "\n", "\r"}
\* What the user can have typed (a text is a sequence of characters).
Inputs == { <<>>, <<" ">>, <<" ", "q", "\t">> }
\* Message of the error a failed primary attempt throws (part_000 226; a network
\* error behaves the same).
PrimaryErrs == { "Chat failed (500)" }
TimeoutMsg == "Request timed out - model may be overloaded."
\* The response field of the JSON the service answers with.
Responses == { "answer" }

\* Whitespace-only (or empty) text, stated without trim.
Blank(s) == \A i \in 1..Len(s) : s[i] \in WS

\* Variant: the prompt is taken untrimmed.
NoTrim(s) == s

RECURSIVE TrimStart(_)
TrimStart(s) == IF s # <<>> /\ Head(s) \in WS THEN TrimStart(Tail(s)) ELSE s
RECURSIVE TrimEnd(_)
TrimEnd(s) == IF s # <<>> /\ s[Len(s)] \in WS THEN TrimEnd(SubSeq(s, 1, Len(s) - 1)) ELSE s
\* String.prototype.trim
Trim(s) == TrimEnd(TrimStart(s))

Min(a, b) == IF a <= b THEN a ELSE b
\* Math.round(n / d) for n >= 0, d > 0
RoundDiv(n, d) == (2 * n + d) \div (2 * d)
\* Array.prototype.slice(0, n) and String.prototype.slice(0, n), n >= 0
\* Variant: no truncation.
NoSlice(s, n) == s
Slice(s, n) == SubSeq(s, 1, Min(n, Len(s)))
\* String.prototype.includes for one character
Includes(s, ch) == \E i \in 1..Len(s) : s[i] = ch

\* --------------------------------------------------------------- tryParseCSV
\* text.split(/\r?\n/): a line ends at "\n"; a "\r" right before it belongs to
\* the separator.
RECURSIVE SplitScan(_, _, _, _)
SplitScan(text, i, cur, out) ==
    IF i > Len(text) THEN Append(out, cur)
    ELSE IF text[i] = "\n"
         THEN LET line == IF cur # <<>> /\ cur[Len(cur)] = "\r"
                          THEN SubSeq(cur, 1, Len(cur) - 1) ELSE cur
              IN SplitScan(text, i + 1, <<>>, Append(out, line))
         ELSE SplitScan(text, i + 1, Append(cur, text[i]), out)
\* Variant: a "\r" on its own ends a line as well.
RECURSIVE SplitAnyScan(_, _, _, _)
SplitAnyScan(text, i, cur, out) ==
    IF i > Len(text) THEN Append(out, cur)
    ELSE IF text[i] \in {"\n", "\r"}
         THEN SplitAnyScan(text, i + 1, <<>>, Append(out, cur))
         ELSE SplitAnyScan(text, i + 1, Append(cur, text[i]), out)
SplitLinesAnyBreak(text) == SplitAnyScan(text, 1, <<>>, <<>>)

SplitLines(text) == SplitScan(text, 1, <<>>, <<>>)

\* line 117: the lines that are not blank
IsNonBlank(l) == Len(Trim(l)) > 0
NonBlankLines(text) == SelectSeq(SplitLines(text), IsNonBlank)

\* lines 119: how many of the first 10 lines contain a comma
HasComma(l) == Includes(l, ",")
\* Variant: every line is sniffed, not only the first 10.
CommaDensityAllLines(lines) == Len(SelectSeq(lines, HasComma))
CommaDensity(lines) == Len(SelectSeq(Slice(lines, SniffLines), HasComma))

\* Variant: every double quote toggles quote mode, none is an escape.
RECURSIVE ParseScanNoEscape(_, _, _, _, _)
ParseScanNoEscape(line, i, cur, inQuotes, out) ==
    IF i > Len(line) THEN Append(out, cur)
    ELSE LET ch == line[i] IN
         IF ch = "\""
         THEN ParseScanNoEscape(line, i + 1, cur, ~inQuotes, out)
         ELSE IF ch = "," /\ ~inQuotes
              THEN ParseScanNoEscape(line, i + 1, <<>>, inQuotes, Append(out, cur))
              ELSE ParseScanNoEscape(line, i + 1, Append(cur, ch), inQuotes, out)
\* parseLine, lines 121-136: the scanner's loop (i, cur, inQuotes, out) ...
RECURSIVE ParseScan(_, _, _, _, _)
ParseScan(line, i, cur, inQuotes, out) ==
    IF i > Len(line) THEN Append(out, cur)
    ELSE LET ch == line[i] IN
         IF ch = "\""
         THEN IF inQuotes /\ i + 1 <= Len(line) /\ line[i + 1] = "\""
              THEN ParseScan(line, i + 2, Append(cur, "\""), inQuotes, out)
              ELSE ParseScan(line, i + 1, cur, ~inQuotes, out)
         ELSE IF ch = "," /\ ~inQuotes
              THEN ParseScan(line, i + 1, <<>>, inQuotes, Append(out, cur))
              ELSE ParseScan(line, i + 1, Append(cur, ch), inQuotes, out)
\* ... and the trim of every field (line 135).
ParseLine(line) ==
    LET out == ParseScan(line, 1, <<>>, FALSE, <<>>)
    IN [j \in 1..Len(out) |-> Trim(out[j])]

NoTable == [null |-> TRUE]
\* Variant: the rows are cut at maxCols, not at the width of the header.
TryParseCSVRowsCutAtMaxCols(text, maxRows, maxCols) ==
    LET lines == NonBlankLines(text) IN
    IF Len(lines) < 2 THEN NoTable
    ELSE IF CommaDensity(lines) < 2 THEN NoTable
    ELSE LET kept == Slice(lines, maxRows)
             raw == [i \in 1..Len(kept) |-> ParseLine(kept[i])]
         IN IF Len(raw) = 0 THEN NoTable
            ELSE [headers |-> Slice(raw[1], Min(Len(raw[1]), maxCols)),
                  rows |-> [i \in 1..(Len(raw) - 1) |-> Slice(raw[i + 1], maxCols)],
                  origin |-> "csv"]

\* tryParseCSV, lines 116-143
TryParseCSV(text, maxRows, maxCols) ==
    LET lines == NonBlankLines(text) IN
    IF Len(lines) < 2 THEN NoTable
    ELSE IF CommaDensity(lines) < 2 THEN NoTable
    ELSE LET kept == Slice(lines, maxRows)
             raw == [i \in 1..Len(kept) |-> ParseLine(kept[i])]
         IN IF Len(raw) = 0 THEN NoTable
            ELSE LET headers == raw[1]
                     colCount == Min(Len(headers), maxCols)
                 IN [headers |-> Slice(headers, colCount),
                     rows |-> [i \in 1..(Len(raw) - 1) |-> Slice(raw[i + 1], colCount)],
                     origin |-> "csv"]

\* json.response || JSON.stringify(json)
ResponseText(resp) == IF Truthy(resp) THEN resp ELSE "{json}"
\* err?.message || 'Unexpected error'
ErrMsg(m) == IF Truthy(m) THEN m ELSE "Unexpected error"

\* ---------------------------------------------------------------- messages
\* role, content, pending, error are the fields of the code; the others are
\* history: owner = the request whose handleSubmit appended the bubble,
\* src = the request whose outcome the content is, by = the request whose
\* callback wrote it, via = which code path wrote it.
Greeting ==
    [role |-> "assistant", content |-> "Hi!", pending |-> FALSE, error |-> FALSE,
     owner |-> 0, src |-> 0, by |-> 0, via |-> "init"]
UserMsg(prompt, r) ==
    [role |-> "user", content |-> prompt, pending |-> FALSE, error |-> FALSE,
     owner |-> r, src |-> r, by |-> r, via |-> "submit"]
PendingMsg(r) ==
    [role |-> "assistant", content |-> "Thinking...", pending |-> TRUE, error |-> FALSE,
     owner |-> r, src |-> 0, by |-> 0, via |-> "submit"]

\* Variant: showErrorBubble without the m.pending test.
ShowErrorBubbleAll(msgs, msg, src, by, via) ==
    [i \in 1..Len(msgs) |->
        IF msgs[i].role = "assistant" /\ msgs[i].owner > 0
        THEN [msgs[i] EXCEPT !.content = msg, !.pending = FALSE, !.error = TRUE,
                             !.src = src, !.by = by, !.via = via]
        ELSE msgs[i]]

\* showErrorBubble (1078-1080): every pending message becomes an error bubble.
ShowErrorBubble(msgs, msg, src, by, via) ==
    [i \in 1..Len(msgs) |->
        IF msgs[i].pending
        THEN [msgs[i] EXCEPT !.content = msg, !.pending = FALSE, !.error = TRUE,
                             !.src = src, !.by = by, !.via = via]
        ELSE msgs[i]]

\* Variant: the response is written into every message.
ResolveBubbleAll(msgs, responseText, r) ==
    [i \in 1..Len(msgs) |->
        [msgs[i] EXCEPT !.content = IF Truthy(responseText) THEN responseText
                                     ELSE "No response text",
                        !.pending = FALSE, !.src = r, !.by = r, !.via = "success"]]

\* line 1104: every pending message receives the response text.
ResolveBubble(msgs, responseText, r) ==
    [i \in 1..Len(msgs) |->
        IF msgs[i].pending
        THEN [msgs[i] EXCEPT !.content = IF Truthy(responseText) THEN responseText
                                          ELSE "No response text",
                             !.pending = FALSE, !.src = r, !.by = r, !.via = "success"]
        ELSE msgs[i]]

\* Variant: the timer is left running.
NoClearTimeout(t) == t

\* clearTimeout(delayTimer): a timer that has not fired yet never fires.
ClearTimeout(t) == IF t = "armed" THEN "cleared" ELSE t

\* -------------------------------------------------------------------- files
\* A File: name, size in bytes, MIME type, the sizes of the chunks its stream
\* (or its FileReader's progress events) delivers, and text: what TextDecoder
\* yields for the bytes processFile decodes (the first PREVIEW_BYTES of a
\* large file, the whole of a small one).
BigCsv ==
    [name |-> <<"a", ".", "c", "s", "v">>, size |-> 2097152, type |-> "text/csv",
     chunks |-> <<1048576, 1048576>>,
     text |-> <<"x", ",", "y", "\n", "1", ",", "2">>]
SmallCsv ==
    [name |-> <<"b", ".", "C", "S", "V">>, size |-> 8, type |-> "",
     chunks |-> <<8>>,
     text |-> <<"p", ",", "q", "\r", "\n", "3", ",", "4">>]
Files == { BigCsv, SmallCsv }
\* A small text file longer than the preview budget of 4000 characters.
LongTxt ==
    [name |-> <<"c", ".", "t", "x", "t">>, size |-> 4002, type |-> "text/plain",
     chunks |-> <<2001, 2001>>,
     text |-> [i \in 1..4002 |-> IF i % 2 = 0 THEN "," ELSE "z"]]
\* A small CSV file whose text fails the sniff test (a single line).
OneLineCsv ==
    [name |-> <<"d", ".", "c", "s", "v">>, size |-> 3, type |-> "text/csv",
     chunks |-> <<3>>,
     text |-> <<"a", ",", "b">>]
SmallFiles == { SmallCsv, LongTxt, OneLineCsv }
\* A large file that is not a CSV file, delivered in three chunks.
BigTxt ==
    [name |-> <<"e", ".", "t", "x", "t">>, size |-> 3145728, type |-> "text/plain",
     chunks |-> <<1048576, 1048576, 1048576>>,
     text |-> <<"n", "o", "t", "e", "s">>]
LargeFiles == { BigCsv, BigTxt }

NoFile == [null |-> TRUE]
NoFileMeta == [null |-> TRUE]
NoRecord == [null |-> TRUE]
\* The null of analyzeResult, cleanResult and piiDetectionResult (39-41), and
\* the response of a remote operation (66, 88, 109), known by the file sent.
NoResult == [null |-> TRUE]
ResultFor(name) == [file |-> name]
\* lib/indexeddb: the single-slot store. A save that succeeds replaces the
\* record as a whole, a delete that succeeds empties the slot, a failed
\* operation leaves the slot as it was; an operation takes effect when it
\* settles, and operations in flight together may settle in any order.
SaveLatestUpload(rec, f, meta, ok) == IF ok THEN [file |-> f, meta |-> meta] ELSE rec
DeleteLatestUpload(rec, ok) == IF ok THEN NoRecord ELSE rec
\* What getLatestUpload resolves with: the record, or nothing.
GetLatestUpload(rec) == rec

\* /\.csv$/i.test(name), line 149
LowerCase(ch) == CASE ch = "C" -> "c" [] ch = "S" -> "s" [] ch = "V" -> "v" [] OTHER -> ch
IsCSVName(name) ==
    /\ Len(name) >= 4
    /\ [i \in 1..4 |-> LowerCase(name[Len(name) - 4 + i])] = <<".", "c", "s", "v">>

\* `Loading partial preview (first ${Math.round(PREVIEW_BYTES/1024)}KB)...`, line 160
Placeholder == <<"Loading partial preview (first 64KB)...">>
\* The UploadedFileMeta literals of lines 156-161, 184, 238-243.
MetaObj(f, preview) ==
    [name |-> f.name, size |-> f.size,
     type |-> IF f.type # "" THEN f.type ELSE "unknown",
     contentPreview |-> preview]
\* The contentPreview of the catch branch, lines 258-263.
Undecoded == <<"Unable to decode preview.">>
\* Records a previous session left in the slot: the blob with its metadata,
\* or metadata whose blob is missing (getLatestUpload: { file, meta }).
PriorRecord ==
    [file |-> SmallCsv, meta |-> MetaObj(SmallCsv, Slice(SmallCsv.text, PreviewChars))]
PriorMetaOnly == [file |-> NoFile, meta |-> PriorRecord.meta]
\* isCSV ? tryParseCSV(text) : null (lines 178-183, 245-250)
ParsedPreview(f) ==
    IF IsCSVName(f.name) THEN TryParseCSV(f.text, DefaultMaxRows, DefaultMaxCols)
    ELSE NoTable

\* ------------------------------------------------------------------- Init
\* TryPage starts on the "processing" tab (page.tsx 9): the effect of lines
\* 297-315 has run once and its getLatestUpload is in flight.
NewLoad == [state |-> "inflight", ignore |-> FALSE]
InitPanel ==
    /\ error = NULL
    /\ isProcessing = FALSE
    /\ analyzeResult = NoResult
    /\ jobs = <<>>
    /\ tab = "processing"
    /\ loads = <<NewLoad>>
    /\ cleanResult = NoResult
    /\ piiDetectionResult = NoResult

InitChat ==
    /\ messages = <<Greeting>>
    /\ input = <<>>
    /\ isLoading = FALSE
    /\ delayedError = NULL
    /\ delayedErrorSrc = 0
    /\ calls = <<>>
    /\ elapsed = 0
    /\ op = [name |-> "init", r |-> 0, fetch |-> FALSE, thrown |-> NULL]

InitUpload ==
    /\ fileMeta = NoFileMeta
    /\ uploadedFile = NoFile
    /\ progress = 0
    /\ progressLabel = "Processing"
    /\ tablePreview = NoTable
    /\ loadedFromCache = FALSE
    /\ hasStream \in BOOLEAN
    /\ procs = <<>>
    /\ clears = <<>>

\* No call of tryParseCSV on its own.
Uncalled == [called |-> FALSE]
NoParse ==
    [text |-> <<>>, maxRows |-> DefaultMaxRows, maxCols |-> DefaultMaxCols,
     result |-> Uncalled]

\* A first visit: the slot is empty.
Init == InitChat /\ InitUpload /\ InitPanel /\ cache = NoRecord /\ parse = NoParse

\* A visit that may find the record of an earlier one.
InitIntake ==
    /\ InitChat /\ InitUpload /\ InitPanel /\ parse = NoParse
    /\ cache \in {NoRecord, PriorRecord, PriorMetaOnly}

\* ------------------------------------------------------------ chatWithCopilot
\* part_000 206-222: the prompt is validated before the AbortController, the
\* hard-timeout timer and the fetch exist.
ChatWithCopilotEntry(prompt) ==
    IF Trim(prompt) = <<>> THEN "Empty prompt" ELSE "fetch"

\* The locals of one accepted handleSubmit invocation r (its closure).
\*   phase          where the async function is suspended
\*   canShowError   line 1075
\*   delayTimer     line 1076: armed | fired | cleared
\*   closureErr     the delayedError of the render that created this handleSubmit:
\*                  the value the delayTimer callback reads (closureSrc: its origin)
\*   timeout        chatWithCopilot's hard-timeout timer (part_000 211, 237)
\*   primaryErr     the error the primary attempt threw
\*   attempts       network calls issued for this submission
\*   outcome, early history: how it settled, and whether that was inside the gate window
NewCall(prompt, entry) ==
    [prompt |-> prompt,
     phase |-> IF entry = "fetch" THEN "primary" ELSE "fallback",
     canShowError |-> FALSE,
     delayTimer |-> "armed",
     closureErr |-> delayedError,
     closureSrc |-> delayedErrorSrc,
     timeout |-> IF entry = "fetch" THEN "armed" ELSE "none",
     primaryErr |-> IF entry = "fetch" THEN NULL ELSE entry,
     attempts |-> 1,
     outcome |-> "none",
     early |-> FALSE]

\* handleSubmit, lines 1064-1086: up to the first await.
HandleSubmit ==
    LET prompt == Trim(input) IN
    IF prompt = <<>> \/ isLoading
    THEN /\ op' = [name |-> "submitIgnored", r |-> 0, fetch |-> FALSE, thrown |-> NULL]
         /\ UNCHANGED <<messages, input, isLoading, delayedError, delayedErrorSrc,
                        calls, elapsed, uploadVars, panelVars>>
    ELSE /\ Len(calls) < MaxReq
         /\ LET r == Len(calls) + 1 IN
            /\ input' = <<>>
            /\ delayedError' = NULL
            /\ delayedErrorSrc' = 0
            /\ messages' = messages \o <<UserMsg(prompt, r), PendingMsg(r)>>
            /\ isLoading' = TRUE
            /\ calls' = Append(calls, NewCall(prompt, ChatWithCopilotEntry(prompt)))
            /\ op' = [name |-> "submit", r |-> r, fetch |-> TRUE, thrown |-> NULL]
         /\ UNCHANGED <<elapsed, uploadVars, panelVars>>

\* onChange of the text field (line 1144); the field is disabled while
\* isLoading (line 1147).
Type(s) ==
    /\ ~isLoading
    /\ input # s
    /\ input' = s
    /\ op' = [name |-> "type", r |-> 0, fetch |-> FALSE, thrown |-> NULL]
    /\ UNCHANGED <<messages, isLoading, delayedError, delayedErrorSrc, calls, elapsed, uploadVars, panelVars>>

\* The delayTimer callback (line 1076), as run for call record c of request r.
DelayTimerCallback(msgs, c, r) ==
    IF Truthy(c.closureErr)
    THEN ShowErrorBubble(msgs, c.closureErr, c.closureSrc, r, "gate")
    ELSE msgs

\* 4 s after request r was submitted. Timers of equal delay run in the order
\* they were set, so the windows pass in submission order; a cleared timer's
\* window passes without its callback.
GateElapse ==
    /\ elapsed < Len(calls)
    /\ LET r == elapsed + 1
           c == calls[r] IN
        /\ elapsed' = r
        /\ IF c.delayTimer = "armed"
           THEN /\ calls' = [calls EXCEPT ![r].canShowError = TRUE, ![r].delayTimer = "fired"]
                /\ messages' = DelayTimerCallback(messages, c, r)
           ELSE UNCHANGED <<calls, messages>>
        /\ op' = [name |-> "gate", r |-> r, fetch |-> FALSE, thrown |-> NULL]
    /\ UNCHANGED <<input, isLoading, delayedError, delayedErrorSrc, uploadVars, panelVars>>

\* Variant: the catch block shows the error without asking canShowError.
CatchBlockAlwaysShow(msgs, c, r, err) ==
    [messages |-> ShowErrorBubble(msgs, ErrMsg(err), r, r, "catch"),
     delayedError |-> delayedError, delayedErrorSrc |-> delayedErrorSrc]

\* The catch block of handleSubmit (1105-1112) for call record c of request r:
\* the new values of messages, delayedError and its origin.
CatchBlock(msgs, c, r, err) ==
    LET errMsg == ErrMsg(err) IN
    IF c.canShowError
    THEN [messages |-> ShowErrorBubble(msgs, errMsg, r, r, "catch"),
          delayedError |-> delayedError, delayedErrorSrc |-> delayedErrorSrc]
    ELSE [messages |-> msgs, delayedError |-> errMsg, delayedErrorSrc |-> r]

\* Lines 1103-1104 and 1113-1115: the request resolved with responseText.
SettleSuccess(r, responseText, name) ==
    /\ messages' = ResolveBubble(messages, responseText, r)
    /\ calls' = [calls EXCEPT ![r].phase = "settled",
                              ![r].delayTimer = ClearTimeout(@),
                              ![r].timeout = ClearTimeout(@),
                              ![r].outcome = "success",
                              ![r].early = (elapsed < r)]
    /\ isLoading' = FALSE
    /\ op' = [name |-> name, r |-> r, fetch |-> FALSE, thrown |-> NULL]
    /\ UNCHANGED <<input, delayedError, delayedErrorSrc, elapsed, uploadVars, panelVars>>

\* Lines 1105-1115: the request failed for good with error message err.
SettleFailure(r, err, name) ==
    LET c == [calls[r] EXCEPT !.delayTimer = ClearTimeout(@)]
        out == CatchBlock(messages, c, r, err) IN
    /\ messages' = out.messages
    /\ delayedError' = out.delayedError
    /\ delayedErrorSrc' = out.delayedErrorSrc
    /\ calls' = [calls EXCEPT ![r] = [c EXCEPT !.phase = "settled",
                                               !.outcome = "error",
                                               !.early = (elapsed < r)]]
    /\ isLoading' = FALSE
    /\ op' = [name |-> name, r |-> r, fetch |-> FALSE, thrown |-> NULL]
    /\ UNCHANGED <<input, elapsed, uploadVars, panelVars>>

\* The primary attempt answered 2xx (part_000 229-230, 237; CenterPanel 1086).
PrimaryResolve(r, resp) ==
    /\ calls[r].phase = "primary"
    /\ SettleSuccess(r, ResponseText(resp), "primaryResolve")

\* Variant: isLoading is given up as soon as the primary attempt has failed.
StartFallbackReleasesLoading(r, err, name) ==
    /\ calls' = [calls EXCEPT ![r].phase = "fallback",
                              ![r].timeout = IF name = "hardTimeout" THEN "fired"
                                             ELSE ClearTimeout(@),
                              ![r].primaryErr = err,
                              ![r].attempts = @ + 1]
    /\ isLoading' = FALSE
    /\ op' = [name |-> name, r |-> r, fetch |-> TRUE, thrown |-> NULL]
    /\ UNCHANGED <<messages, input, delayedError, delayedErrorSrc, elapsed, uploadVars, panelVars>>

\* Lines 1087-1094: the primary attempt threw err; the fallback request is sent.
StartFallback(r, err, name) ==
    /\ calls' = [calls EXCEPT ![r].phase = "fallback",
                              ![r].timeout = IF name = "hardTimeout" THEN "fired"
                                             ELSE ClearTimeout(@),
                              ![r].primaryErr = err,
                              ![r].attempts = @ + 1]
    /\ op' = [name |-> name, r |-> r, fetch |-> TRUE, thrown |-> NULL]
    /\ UNCHANGED <<messages, input, isLoading, delayedError, delayedErrorSrc, elapsed, uploadVars, panelVars>>

\* The primary attempt failed: non-2xx (part_000 223-227) or a network error.
PrimaryReject(r, err) ==
    /\ calls[r].phase = "primary"
    /\ StartFallback(r, err, "primaryReject")

\* part_000 210-211, 232-234: 120 s after the call the fetch is aborted and the
\* primary attempt throws the timeout error. 120 s > 4 s: the gate window of
\* the request has passed.
HardTimeout(r) ==
    /\ calls[r].phase = "primary"
    /\ calls[r].timeout = "armed"
    /\ r <= elapsed
    /\ StartFallback(r, TimeoutMsg, "hardTimeout")

\* Lines 1095-1097: the fallback answered 2xx with JSON j.
FallbackResolve(r, resp) ==
    /\ calls[r].phase = "fallback"
    /\ SettleSuccess(r, ResponseText(resp), "fallbackResolve")

\* Variant: the error of the fallback request itself is thrown on.
FallbackRejectOwnError(r) ==
    /\ calls[r].phase = "fallback"
    /\ SettleFailure(r, "Failed to fetch", "fallbackReject")

\* Lines 1098-1101: the fallback failed (non-2xx, network error, bad JSON):
\* the primary error is rethrown.
FallbackReject(r) ==
    /\ calls[r].phase = "fallback"
    /\ SettleFailure(r, calls[r].primaryErr, "fallbackReject")

\* Another caller of the exported chatWithCopilot (part_000 206-222) with
\* prompt p: the call either throws at once or issues its fetch, and touches
\* nothing of the panel.
DirectCall(p) ==
    /\ LET entry == ChatWithCopilotEntry(p) IN
        op' = [name |-> "directCall", r |-> 0, fetch |-> (entry = "fetch"),
               thrown |-> IF entry = "fetch" THEN NULL ELSE entry]
    /\ UNCHANGED <<messages, input, isLoading, delayedError, delayedErrorSrc, calls, elapsed, uploadVars, panelVars>>

NextChat ==
    \/ HandleSubmit
    \/ \E s \in Inputs : Type(s)
    \/ GateElapse
    \/ \E r \in 1..Len(calls), resp \in Responses : PrimaryResolve(r, resp)
    \/ \E r \in 1..Len(calls), err \in PrimaryErrs : PrimaryReject(r, err)
    \/ \E r \in 1..Len(calls) : HardTimeout(r)
    \/ \E r \in 1..Len(calls), resp \in Responses : FallbackResolve(r, resp)
    \/ \E r \in 1..Len(calls) : FallbackReject(r)
    \/ \E p \in Inputs : DirectCall(p)

SpecChat == Init /\ [][NextChat]_vars

\* The timers of a request are served by the event loop once they are due:
\* the gate timer (1076) and the abort timer of chatWithCopilot (part_000
\* 211). Nothing obliges the user to act or the remote service to answer.
SpecChatLive ==
    /\ Init /\ [][NextChat]_vars
    /\ WF_vars(GateElapse)
    /\ WF_vars(\E r \in 1..Len(calls) : HardTimeout(r))

\* ============================================================ CenterPanel
\* The tasks of one processFile invocation, each "none" (not started by this
\* invocation), running, or "end" (nothing of it will run any more):
\*   save    the placeholder saveLatestUpload of the large path (165-167): inflight
\*   head    the headReader and its onload (169-187): reading, then saving
\*   stream  the reader.read() loop (193-203): reading; nread chunks, loaded bytes
\*   reader  the FileReader of the fallback (206-217) or of the small path
\*           (224-276): reading, then (small path) saving
\*   afterClear  history: a Clear click preceded this invocation
\*   okSaves     history: the saveLatestUpload calls of this invocation that succeeded
NewProc(f) ==
    LET large == f.size > LargeThreshold IN
    [file |-> f, large |-> large,
     save |-> IF large THEN "inflight" ELSE "none",
     head |-> IF large THEN "reading" ELSE "none",
     stream |-> IF large /\ hasStream THEN "reading" ELSE "none",
     reader |-> IF large /\ hasStream THEN "none" ELSE "reading",
     nread |-> 0, loaded |-> 0,
     afterClear |-> clears # <<>>,
     okSaves |-> 0]

\* Math.min(100, Math.round((loaded / total) * 100)), lines 200, 209, 227
Pct(loaded, total) == Min(100, RoundDiv(loaded * 100, total))

\* processFile, lines 147-163 and the synchronous start of its tasks.
ProcessFile(f) ==
    /\ tab = "processing"
    /\ Len(procs) < MaxUploads
    /\ progress' = 0
    /\ uploadedFile' = f
    /\ IF f.size > LargeThreshold
       THEN /\ progressLabel' = "Uploading"
            /\ fileMeta' = MetaObj(f, Placeholder)
            /\ tablePreview' = NoTable
       ELSE UNCHANGED <<progressLabel, fileMeta, tablePreview>>
    /\ procs' = Append(procs, NewProc(f))
    /\ UNCHANGED <<loadedFromCache, hasStream, clears, cache, chatVars, panelVars>>

\* The placeholder save settles (165-167); a rejection is swallowed.
PlaceholderSaveSettle(k, ok) ==
    /\ procs[k].save = "inflight"
    /\ procs' = [procs EXCEPT ![k].save = "end", ![k].okSaves = IF ok THEN @ + 1 ELSE @]
    /\ cache' = SaveLatestUpload(cache, procs[k].file,
                                  MetaObj(procs[k].file, Placeholder), ok)
    /\ UNCHANGED <<fileMeta, uploadedFile, progress, progressLabel, tablePreview,
                   loadedFromCache, hasStream, clears, chatVars, panelVars>>

\* Variant: the head slice is decoded only once the streaming pass is over.
HeadLoadedAfterStream(k) ==
    /\ procs[k].head = "reading"
    /\ procs[k].stream \in {"none", "end"} /\ procs[k].reader \in {"none", "end"}
    /\ LET f == procs[k].file IN
        /\ fileMeta' = IF fileMeta # NoFileMeta
                       THEN [fileMeta EXCEPT !.contentPreview = Slice(f.text, PreviewChars)]
                       ELSE fileMeta
        /\ tablePreview' = ParsedPreview(f)
    /\ procs' = [procs EXCEPT ![k].head = "saving"]
    /\ UNCHANGED <<uploadedFile, progress, progressLabel, loadedFromCache, hasStream,
                   clears, cache, chatVars, panelVars>>

\* headReader.onload, lines 172-184 up to the await.
HeadLoaded(k) ==
    /\ procs[k].head = "reading"
    /\ LET f == procs[k].file IN
        /\ fileMeta' = IF fileMeta # NoFileMeta
                       THEN [fileMeta EXCEPT !.contentPreview = Slice(f.text, PreviewChars)]
                       ELSE fileMeta
        /\ tablePreview' = ParsedPreview(f)
    /\ procs' = [procs EXCEPT ![k].head = "saving"]
    /\ UNCHANGED <<uploadedFile, progress, progressLabel, loadedFromCache, hasStream,
                   clears, cache, chatVars, panelVars>>

\* The head slice cannot be read: headReader has no onerror, nothing runs.
HeadError(k) ==
    /\ procs[k].head = "reading"
    /\ procs' = [procs EXCEPT ![k].head = "end"]
    /\ UNCHANGED <<fileMeta, uploadedFile, progress, progressLabel, tablePreview,
                   loadedFromCache, hasStream, clears, cache, chatVars, panelVars>>

\* The refined save of line 184 settles; a rejection is swallowed.
RefinedSaveSettle(k, ok) ==
    /\ procs[k].head = "saving"
    /\ procs' = [procs EXCEPT ![k].head = "end", ![k].okSaves = IF ok THEN @ + 1 ELSE @]
    /\ cache' = SaveLatestUpload(cache, procs[k].file,
                                  MetaObj(procs[k].file,
                                          Slice(procs[k].file.text, PreviewChars)), ok)
    /\ UNCHANGED <<fileMeta, uploadedFile, progress, progressLabel, tablePreview,
                   loadedFromCache, hasStream, clears, chatVars, panelVars>>

\* reader.read() resolved with a chunk, lines 197-201.
StreamChunk(k) ==
    /\ procs[k].stream = "reading"
    /\ procs[k].nread < Len(procs[k].file.chunks)
    /\ LET f == procs[k].file
           loaded == procs[k].loaded + f.chunks[procs[k].nread + 1]
           total == IF f.size # 0 THEN f.size ELSE 1 IN
        /\ progress' = Pct(loaded, total)
        /\ procs' = [procs EXCEPT ![k].nread = @ + 1, ![k].loaded = loaded]
    /\ UNCHANGED <<fileMeta, uploadedFile, progressLabel, tablePreview, loadedFromCache,
                   hasStream, clears, cache, chatVars, panelVars>>

\* reader.read() resolved with done, lines 198, 203.
StreamDone(k) ==
    /\ procs[k].stream = "reading"
    /\ procs[k].nread = Len(procs[k].file.chunks)
    /\ progress' = 100
    /\ procs' = [procs EXCEPT ![k].stream = "end"]
    /\ UNCHANGED <<fileMeta, uploadedFile, progressLabel, tablePreview, loadedFromCache,
                   hasStream, clears, cache, chatVars, panelVars>>

\* reader.read() rejected: the catch of lines 219-221.
StreamError(k) ==
    /\ procs[k].stream = "reading"
    /\ progress' = 100
    /\ procs' = [procs EXCEPT ![k].stream = "end"]
    /\ UNCHANGED <<fileMeta, uploadedFile, progressLabel, tablePreview, loadedFromCache,
                   hasStream, clears, cache, chatVars, panelVars>>

\* reader.onprogress, lines 207-214 and 225-232.
ReaderProgress(k, lengthComputable) ==
    /\ procs[k].reader = "reading"
    /\ procs[k].nread < Len(procs[k].file.chunks)
    /\ LET f == procs[k].file
           loaded == procs[k].loaded + f.chunks[procs[k].nread + 1] IN
        /\ progress' = IF lengthComputable THEN Pct(loaded, f.size)
                       ELSE IF progress < TickCap THEN progress + TickStep ELSE progress
        /\ procs' = [procs EXCEPT ![k].nread = @ + 1, ![k].loaded = loaded]
    /\ UNCHANGED <<fileMeta, uploadedFile, progressLabel, tablePreview, loadedFromCache,
                   hasStream, clears, cache, chatVars, panelVars>>

\* The fallback FileReader finished, with or without an error: onloadend,
\* line 215.  On an error onerror (216, setProgress(0)) runs first in the
\* same task, and the later setProgress(100) is the one rendered.
FallbackLoadEnd(k) ==
    /\ procs[k].large /\ procs[k].reader = "reading"
    /\ progress' = 100
    /\ procs' = [procs EXCEPT ![k].reader = "end"]
    /\ UNCHANGED <<fileMeta, uploadedFile, progressLabel, tablePreview, loadedFromCache,
                   hasStream, clears, cache, chatVars, panelVars>>

\* The fallback FileReader failed: onerror (216, setProgress(0)) and then
\* onloadend (215, setProgress(100)) run in the same task; the failure is
\* recorded in the state of the reader.
FallbackError(k) ==
    /\ procs[k].large /\ procs[k].reader = "reading"
    /\ progress' = 100
    /\ procs' = [procs EXCEPT ![k].reader = "failed"]
    /\ UNCHANGED <<fileMeta, uploadedFile, progressLabel, tablePreview, loadedFromCache,
                   hasStream, clears, cache, chatVars, panelVars>>

\* reader.onload of the small path, lines 233-253 up to the await.
\* (TextDecoder is built without { fatal: true }: decode does not throw.)
SmallLoaded(k) ==
    /\ ~procs[k].large /\ procs[k].reader = "reading"
    /\ LET f == procs[k].file IN
        /\ fileMeta' = MetaObj(f, Slice(f.text, PreviewChars))
        /\ tablePreview' = ParsedPreview(f)
    /\ procs' = [procs EXCEPT ![k].reader = "saving"]
    /\ UNCHANGED <<uploadedFile, progress, progressLabel, loadedFromCache, hasStream,
                   clears, cache, chatVars, panelVars>>

\* Variant: the rejection of the save of line 253 is not swallowed by the
\* inner try and reaches the catch of line 257.
SmallSaveSettleUnswallowed(k, ok) ==
    /\ procs[k].reader = "saving"
    /\ cache' = SaveLatestUpload(cache, procs[k].file,
                                  MetaObj(procs[k].file,
                                          Slice(procs[k].file.text, PreviewChars)), ok)
    /\ IF ok
       THEN /\ progressLabel' = "Processing"
            /\ progress' = 100
            /\ procs' = [procs EXCEPT ![k].reader = "end", ![k].okSaves = @ + 1]
            /\ UNCHANGED <<fileMeta, tablePreview>>
       ELSE /\ fileMeta' = MetaObj(procs[k].file, Undecoded)
            /\ tablePreview' = NoTable
            /\ procs' = [procs EXCEPT ![k].reader = "savingUndecoded"]
            /\ UNCHANGED <<progressLabel, progress>>
    /\ UNCHANGED <<uploadedFile, loadedFromCache, hasStream, clears, chatVars, panelVars>>

\* The save of line 253 settles (a rejection is swallowed), then 255-256.
SmallSaveSettle(k, ok) ==
    /\ procs[k].reader = "saving"
    /\ cache' = SaveLatestUpload(cache, procs[k].file,
                                  MetaObj(procs[k].file,
                                          Slice(procs[k].file.text, PreviewChars)), ok)
    /\ progressLabel' = "Processing"
    /\ progress' = 100
    /\ procs' = [procs EXCEPT ![k].reader = "end", ![k].okSaves = IF ok THEN @ + 1 ELSE @]
    /\ UNCHANGED <<fileMeta, uploadedFile, tablePreview, loadedFromCache, hasStream, clears, chatVars, panelVars>>

\* reader.onerror of the small path, lines 273-275.
SmallError(k) ==
    /\ ~procs[k].large /\ procs[k].reader = "reading"
    /\ progress' = 0
    /\ procs' = [procs EXCEPT ![k].reader = "end"]
    /\ UNCHANGED <<fileMeta, uploadedFile, progressLabel, tablePreview, loadedFromCache,
                   hasStream, clears, cache, chatVars, panelVars>>

\* The Clear button (rendered while fileMeta is set): reset() (43-51) and the
\* call of deleteLatestUpload, lines 458-460.
ClearClick ==
    /\ tab = "processing"
    /\ fileMeta # NoFileMeta
    /\ Len(clears) < MaxClears
    /\ fileMeta' = NoFileMeta
    /\ uploadedFile' = NoFile
    /\ progress' = 0
    /\ progressLabel' = "Processing"
    /\ tablePreview' = NoTable
    /\ error' = NULL
    /\ piiDetectionResult' = NoResult
    /\ clears' = Append(clears, "deleting")
    /\ UNCHANGED <<loadedFromCache, hasStream, procs, cache, chatVars,
                   isProcessing, analyzeResult, jobs, tab, loads, parse, cleanResult>>

\* deleteLatestUpload settles (a rejection is swallowed), then lines 461-464.
ClearSettle(c, ok) ==
    /\ clears[c] = "deleting"
    /\ cache' = DeleteLatestUpload(cache, ok)
    /\ loadedFromCache' = FALSE
    /\ analyzeResult' = NoResult
    /\ cleanResult' = NoResult
    /\ piiDetectionResult' = NoResult
    /\ clears' = [clears EXCEPT ![c] = IF ok THEN "deleted" ELSE "failed"]
    /\ UNCHANGED <<fileMeta, uploadedFile, progress, progressLabel, tablePreview,
                   hasStream, procs, chatVars,
                   error, isProcessing, jobs, tab, loads, parse>>

\* reader.onload of the small path when something in its try block throws
\* (e.g. no TextDecoder): the catch branch, lines 257-267 up to the await.
SmallDecodeFailed(k) ==
    /\ ~procs[k].large /\ procs[k].reader = "reading"
    /\ fileMeta' = MetaObj(procs[k].file, Undecoded)
    /\ tablePreview' = NoTable
    /\ procs' = [procs EXCEPT ![k].reader = "savingUndecoded"]
    /\ UNCHANGED <<uploadedFile, progress, progressLabel, loadedFromCache, hasStream,
                   clears, cache, chatVars, panelVars>>

\* The save of line 267 settles (a rejection is swallowed), then 269-270.
SmallFallbackSaveSettle(k, ok) ==
    /\ procs[k].reader = "savingUndecoded"
    /\ cache' = SaveLatestUpload(cache, procs[k].file, MetaObj(procs[k].file, Undecoded), ok)
    /\ progressLabel' = "Processing"
    /\ progress' = 100
    /\ procs' = [procs EXCEPT ![k].reader = "end",
                              ![k].okSaves = IF ok THEN @ + 1 ELSE @]
    /\ UNCHANGED <<fileMeta, uploadedFile, tablePreview, loadedFromCache, hasStream,
                   clears, chatVars, panelVars>>

\* The cleanup of the cache-load effect (312-314): it exists for the run made
\* while tab was "processing", and sets that run's ignore flag.
EffectCleanup(ls) ==
    IF tab = "processing" /\ ls # <<>>
    THEN [ls EXCEPT ![Len(ls)].ignore = TRUE]
    ELSE ls

\* The tabs the Sidebar offers, as far as the effect tells them apart.
Tabs == {"processing", "bias-analysis"}

\* Sidebar onChange={setTab} (page.tsx 15): the effect of lines 297-315 is
\* cleaned up and runs again; on "processing" it calls getLatestUpload.
SwitchTab(t) ==
    /\ t # tab
    /\ t = "processing" => Len(loads) < MaxLoads
    /\ tab' = t
    /\ loads' = IF t = "processing" THEN Append(EffectCleanup(loads), NewLoad)
                ELSE EffectCleanup(loads)
    /\ UNCHANGED <<uploadVars, chatVars, error, isProcessing, analyzeResult, jobs, parse,
                   cleanResult, piiDetectionResult>>

\* getLatestUpload of effect run l settles, lines 302-310; a rejection is
\* swallowed by the catch of line 310.
LoadSettle(l, ok) ==
    /\ loads[l].state = "inflight"
    /\ loads' = [loads EXCEPT ![l].state = "end"]
    /\ LET rec == GetLatestUpload(cache) IN
        IF ok /\ ~loads[l].ignore /\ rec # NoRecord
        THEN /\ fileMeta' = rec.meta
             /\ uploadedFile' = IF rec.file # NoFile THEN rec.file ELSE uploadedFile
             /\ loadedFromCache' = TRUE
        ELSE UNCHANGED <<fileMeta, uploadedFile, loadedFromCache>>
    /\ UNCHANGED <<progress, progressLabel, tablePreview, hasStream, procs, clears, cache,
                   chatVars, error, isProcessing, analyzeResult, jobs, tab, parse,
                   cleanResult, piiDetectionResult>>

\* handleAnalyze, lines 54-65 up to the await. Its button is rendered with
\* the file card (362) and disabled while isProcessing (481).
HandleAnalyze ==
    /\ tab = "processing" /\ fileMeta # NoFileMeta /\ ~isProcessing
    /\ IF uploadedFile = NoFile
       THEN /\ error' = "No file uploaded"
            /\ UNCHANGED <<isProcessing, progressLabel, jobs>>
       ELSE /\ Len(jobs) < MaxJobs
            /\ isProcessing' = TRUE
            /\ error' = NULL
            /\ progressLabel' = "Analyzing dataset..."
            /\ jobs' = Append(jobs, [state |-> "inflight", file |-> uploadedFile.name])
    /\ UNCHANGED <<fileMeta, uploadedFile, progress, tablePreview, loadedFromCache,
                   hasStream, procs, clears, cache, chatVars, analyzeResult, tab, loads,
                   parse, cleanResult, piiDetectionResult>>

\* Variant: setIsProcessing(false) only follows a successful analysis.
AnalyzeSettleNoFinally(j, ok) ==
    /\ jobs[j].state = "inflight"
    /\ jobs' = [jobs EXCEPT ![j].state = "end"]
    /\ IF ok
       THEN /\ analyzeResult' = ResultFor(jobs[j].file)
            /\ progressLabel' = "Analysis complete!"
            /\ tab' = "bias-analysis"
            /\ loads' = EffectCleanup(loads)
            /\ isProcessing' = FALSE
            /\ UNCHANGED error
       ELSE /\ error' = "Analysis failed"
            /\ UNCHANGED <<analyzeResult, progressLabel, tab, loads, isProcessing>>
    /\ UNCHANGED <<fileMeta, uploadedFile, progress, tablePreview, loadedFromCache,
                   hasStream, procs, clears, cache, chatVars, parse,
                   cleanResult, piiDetectionResult>>

\* analyzeDataset settles, lines 66-72 (api.ts 126: 'Analysis failed'); on
\* success onAnalyze switches TryPage to the bias-analysis tab (page.tsx 18).
AnalyzeSettle(j, ok) ==
    /\ jobs[j].state = "inflight"
    /\ jobs' = [jobs EXCEPT ![j].state = "end"]
    /\ isProcessing' = FALSE
    /\ IF ok
       THEN /\ analyzeResult' = ResultFor(jobs[j].file)
            /\ progressLabel' = "Analysis complete!"
            /\ tab' = "bias-analysis"
            /\ loads' = EffectCleanup(loads)
            /\ UNCHANGED error
       ELSE /\ error' = "Analysis failed"
            /\ UNCHANGED <<analyzeResult, progressLabel, tab, loads>>
    /\ UNCHANGED <<fileMeta, uploadedFile, progress, tablePreview, loadedFromCache,
                   hasStream, procs, clears, cache, chatVars, parse,
                   cleanResult, piiDetectionResult>>

\* handleDetectPII, lines 76-87 up to the await. Its button is rendered with
\* the file card (362) and disabled while isProcessing (473).
HandleDetectPII ==
    /\ tab = "processing" /\ fileMeta # NoFileMeta /\ ~isProcessing
    /\ IF uploadedFile = NoFile
       THEN /\ error' = "No file uploaded"
            /\ UNCHANGED <<isProcessing, progressLabel, jobs>>
       ELSE /\ Len(jobs) < MaxJobs
            /\ isProcessing' = TRUE
            /\ error' = NULL
            /\ progressLabel' = "Detecting PII..."
            /\ jobs' = Append(jobs, [state |-> "detecting", file |-> uploadedFile.name])
    /\ UNCHANGED <<fileMeta, uploadedFile, progress, tablePreview, loadedFromCache,
                   hasStream, procs, clears, cache, chatVars, analyzeResult, tab, loads,
                   parse, cleanResult, piiDetectionResult>>

\* detectPII settles, lines 88-94 (api.ts 166: 'PII detection failed').
DetectPIISettle(j, ok) ==
    /\ jobs[j].state = "detecting"
    /\ jobs' = [jobs EXCEPT ![j].state = "end"]
    /\ isProcessing' = FALSE
    /\ IF ok
       THEN /\ piiDetectionResult' = ResultFor(jobs[j].file)
            /\ progressLabel' = "PII detection complete!"
            /\ UNCHANGED error
       ELSE /\ error' = "PII detection failed"
            /\ UNCHANGED <<piiDetectionResult, progressLabel>>
    /\ UNCHANGED <<fileMeta, uploadedFile, progress, tablePreview, loadedFromCache,
                   hasStream, procs, clears, cache, chatVars, analyzeResult, tab, loads,
                   parse, cleanResult>>

\* handleClean, lines 97-108 up to the await. No element of the page calls
\* it; it is taken to be called as its two siblings are, from the file card
\* and not while isProcessing.
HandleClean ==
    /\ tab = "processing" /\ fileMeta # NoFileMeta /\ ~isProcessing
    /\ IF uploadedFile = NoFile
       THEN /\ error' = "No file uploaded"
            /\ UNCHANGED <<isProcessing, progressLabel, jobs>>
       ELSE /\ Len(jobs) < MaxJobs
            /\ isProcessing' = TRUE
            /\ error' = NULL
            /\ progressLabel' = "Cleaning dataset..."
            /\ jobs' = Append(jobs, [state |-> "cleaning", file |-> uploadedFile.name])
    /\ UNCHANGED <<fileMeta, uploadedFile, progress, tablePreview, loadedFromCache,
                   hasStream, procs, clears, cache, chatVars, analyzeResult, tab, loads,
                   parse, cleanResult, piiDetectionResult>>

\* cleanDataset settles, lines 109-115 (api.ts 146: 'Cleaning failed').
CleanSettle(j, ok) ==
    /\ jobs[j].state = "cleaning"
    /\ jobs' = [jobs EXCEPT ![j].state = "end"]
    /\ isProcessing' = FALSE
    /\ IF ok
       THEN /\ cleanResult' = ResultFor(jobs[j].file)
            /\ progressLabel' = "Cleaning complete!"
            /\ UNCHANGED error
       ELSE /\ error' = "Cleaning failed"
            /\ UNCHANGED <<cleanResult, progressLabel>>
    /\ UNCHANGED <<fileMeta, uploadedFile, progress, tablePreview, loadedFromCache,
                   hasStream, procs, clears, cache, chatVars, analyzeResult, tab, loads,
                   parse, piiDetectionResult>>

\* Any task of processFile invocation k other than its synchronous start
\* (lines 165-221 and 224-276).
Background(k) ==
    \/ \E ok \in BOOLEAN : PlaceholderSaveSettle(k, ok)
    \/ HeadLoaded(k)
    \/ HeadError(k)
    \/ \E ok \in BOOLEAN : RefinedSaveSettle(k, ok)
    \/ StreamChunk(k)
    \/ StreamDone(k)
    \/ StreamError(k)
    \/ \E lc \in BOOLEAN : ReaderProgress(k, lc)
    \/ FallbackLoadEnd(k)
    \/ SmallLoaded(k)
    \/ \E ok \in BOOLEAN : SmallSaveSettle(k, ok)
    \/ SmallError(k)

NextUpload ==
    \/ \E f \in Files : ProcessFile(f)
    \/ \E k \in 1..Len(procs), ok \in BOOLEAN : PlaceholderSaveSettle(k, ok)
    \/ \E k \in 1..Len(procs) : HeadLoaded(k)
    \/ \E k \in 1..Len(procs) : HeadError(k)
    \/ \E k \in 1..Len(procs), ok \in BOOLEAN : RefinedSaveSettle(k, ok)
    \/ \E k \in 1..Len(procs) : StreamChunk(k)
    \/ \E k \in 1..Len(procs) : StreamDone(k)
    \/ \E k \in 1..Len(procs) : StreamError(k)
    \/ \E k \in 1..Len(procs), lc \in BOOLEAN : ReaderProgress(k, lc)
    \/ \E k \in 1..Len(procs) : FallbackLoadEnd(k)
    \/ \E k \in 1..Len(procs) : SmallLoaded(k)
    \/ \E k \in 1..Len(procs), ok \in BOOLEAN : SmallSaveSettle(k, ok)
    \/ \E k \in 1..Len(procs) : SmallError(k)
    \/ ClearClick
    \/ \E c \in 1..Len(clears), ok \in BOOLEAN : ClearSettle(c, ok)

SpecUpload == Init /\ [][NextUpload]_vars

\* One upload with everything the processing view can do around it: the
\* cache load of the effect, tab switches, Clear and handleAnalyze.
NextIntake ==
    \/ \E f \in Files : Len(procs) < MaxIntakeUploads /\ ProcessFile(f)
    \/ \E k \in 1..Len(procs), ok \in BOOLEAN : PlaceholderSaveSettle(k, ok)
    \/ \E k \in 1..Len(procs) : HeadLoaded(k)
    \/ \E k \in 1..Len(procs) : HeadError(k)
    \/ \E k \in 1..Len(procs), ok \in BOOLEAN : RefinedSaveSettle(k, ok)
    \/ \E k \in 1..Len(procs) : StreamChunk(k)
    \/ \E k \in 1..Len(procs) : StreamDone(k)
    \/ \E k \in 1..Len(procs) : StreamError(k)
    \/ \E k \in 1..Len(procs), lc \in BOOLEAN : ReaderProgress(k, lc)
    \/ \E k \in 1..Len(procs) : FallbackLoadEnd(k)
    \/ \E k \in 1..Len(procs) : SmallLoaded(k)
    \/ \E k \in 1..Len(procs) : SmallDecodeFailed(k)
    \/ \E k \in 1..Len(procs), ok \in BOOLEAN : SmallSaveSettle(k, ok)
    \/ \E k \in 1..Len(procs), ok \in BOOLEAN : SmallFallbackSaveSettle(k, ok)
    \/ \E k \in 1..Len(procs) : SmallError(k)
    \/ ClearClick
    \/ \E c \in 1..Len(clears), ok \in BOOLEAN : ClearSettle(c, ok)
    \/ \E t \in Tabs : SwitchTab(t)
    \/ \E l \in 1..Len(loads), ok \in BOOLEAN : LoadSettle(l, ok)
    \/ HandleAnalyze
    \/ \E j \in 1..Len(jobs), ok \in BOOLEAN : AnalyzeSettle(j, ok)

SpecIntake == InitIntake /\ [][NextIntake]_vars

\* The small-file path of one processFile call on its own (224-276).
NextSmall ==
    \/ \E f \in SmallFiles : procs = <<>> /\ ProcessFile(f)
    \/ \E k \in 1..Len(procs), lc \in BOOLEAN : ReaderProgress(k, lc)
    \/ \E k \in 1..Len(procs) : SmallLoaded(k)
    \/ \E k \in 1..Len(procs) : SmallDecodeFailed(k)
    \/ \E k \in 1..Len(procs), ok \in BOOLEAN : SmallSaveSettle(k, ok)
    \/ \E k \in 1..Len(procs), ok \in BOOLEAN : SmallFallbackSaveSettle(k, ok)
    \/ \E k \in 1..Len(procs) : SmallError(k)

SpecSmall == InitIntake /\ [][NextSmall]_vars

\* The large-file path of one processFile call on its own (154-223).
NextLarge ==
    \/ \E f \in LargeFiles : procs = <<>> /\ ProcessFile(f)
    \/ \E k \in 1..Len(procs), ok \in BOOLEAN : PlaceholderSaveSettle(k, ok)
    \/ \E k \in 1..Len(procs) : HeadLoaded(k)
    \/ \E k \in 1..Len(procs) : HeadError(k)
    \/ \E k \in 1..Len(procs), ok \in BOOLEAN : RefinedSaveSettle(k, ok)
    \/ \E k \in 1..Len(procs) : StreamChunk(k)
    \/ \E k \in 1..Len(procs) : StreamDone(k)
    \/ \E k \in 1..Len(procs) : StreamError(k)
    \/ \E k \in 1..Len(procs), lc \in BOOLEAN : ReaderProgress(k, lc)
    \/ \E k \in 1..Len(procs) : FallbackLoadEnd(k)

SpecLarge == InitIntake /\ [][NextLarge]_vars

\* One processFile call of either size with each of its tasks, the failure
\* of each of its readers included (147-276).
NextOneCall ==
    \/ \E f \in LargeFiles \cup SmallFiles : procs = <<>> /\ ProcessFile(f)
    \/ \E k \in 1..Len(procs), ok \in BOOLEAN : PlaceholderSaveSettle(k, ok)
    \/ \E k \in 1..Len(procs) : HeadLoaded(k)
    \/ \E k \in 1..Len(procs) : HeadError(k)
    \/ \E k \in 1..Len(procs), ok \in BOOLEAN : RefinedSaveSettle(k, ok)
    \/ \E k \in 1..Len(procs) : StreamChunk(k)
    \/ \E k \in 1..Len(procs) : StreamDone(k)
    \/ \E k \in 1..Len(procs) : StreamError(k)
    \/ \E k \in 1..Len(procs), lc \in BOOLEAN : ReaderProgress(k, lc)
    \/ \E k \in 1..Len(procs) : FallbackLoadEnd(k)
    \/ \E k \in 1..Len(procs) : FallbackError(k)
    \/ \E k \in 1..Len(procs) : SmallLoaded(k)
    \/ \E k \in 1..Len(procs) : SmallDecodeFailed(k)
    \/ \E k \in 1..Len(procs), ok \in BOOLEAN : SmallSaveSettle(k, ok)
    \/ \E k \in 1..Len(procs), ok \in BOOLEAN : SmallFallbackSaveSettle(k, ok)
    \/ \E k \in 1..Len(procs) : SmallError(k)

SpecOneCall == Init /\ [][NextOneCall]_vars

Spec == Init /\ [][NextChat \/ NextUpload]_vars

\* The three remote operations on an uploaded file with what surrounds
\* them on the processing tab: the selection of a small file, the cache
\* load of the mount and Clear.
NextAnalysis ==
    \/ Len(procs) < MaxIntakeUploads /\ ProcessFile(SmallCsv)
    \/ \E k \in 1..Len(procs) : SmallLoaded(k)
    \/ \E k \in 1..Len(procs), ok \in BOOLEAN : SmallSaveSettle(k, ok)
    \/ ClearClick
    \/ \E c \in 1..Len(clears), ok \in BOOLEAN : ClearSettle(c, ok)
    \/ \E l \in 1..Len(loads), ok \in BOOLEAN : LoadSettle(l, ok)
    \/ HandleAnalyze
    \/ \E j \in 1..Len(jobs), ok \in BOOLEAN : AnalyzeSettle(j, ok)
    \/ HandleDetectPII
    \/ \E j \in 1..Len(jobs), ok \in BOOLEAN : DetectPIISettle(j, ok)
    \/ HandleClean
    \/ \E j \in 1..Len(jobs), ok \in BOOLEAN : CleanSettle(j, ok)

SpecAnalysis == InitIntake /\ [][NextAnalysis]_vars

\* ------------------------------------ processFile as revised in part_000
\* The branch for a file whose name does not end in .csv (part_000 421-426,
\* up to the await of the fetch): the file is posted to /api/files.
ProcessFileNonCSV(f) ==
    /\ tab = "processing"
    /\ ~IsCSVName(f.name)
    /\ Len(jobs) < MaxJobs
    /\ progressLabel' = "Uploading file..."
    /\ isProcessing' = TRUE
    /\ error' = NULL
    /\ jobs' = Append(jobs, [state |-> "uploading", file |-> f])
    /\ UNCHANGED <<fileMeta, uploadedFile, progress, tablePreview, loadedFromCache,
                   hasStream, procs, clears, cache, chatVars, analyzeResult, tab, loads,
                   parse, cleanResult, piiDetectionResult>>

\* The fetch of that branch settles (part_000 428-456): the answer is
\* offered as a download, or the failure becomes the error; then return.
NonCSVUploadSettle(j, ok) ==
    /\ jobs[j].state = "uploading"
    /\ jobs' = [jobs EXCEPT ![j].state = IF ok THEN "uploaded" ELSE "uploadFailed"]
    /\ isProcessing' = FALSE
    /\ IF ok
       THEN progressLabel' = "File processed successfully" /\ UNCHANGED error
       ELSE error' = "Upload failed" /\ UNCHANGED progressLabel
    /\ UNCHANGED <<fileMeta, uploadedFile, progress, tablePreview, loadedFromCache,
                   hasStream, procs, clears, cache, chatVars, analyzeResult, tab, loads,
                   parse, cleanResult, piiDetectionResult>>

\* processFile of part_000 (418-...): a .csv name goes on as in lines
\* 147-276 of CenterPanel.tsx, any other name takes the branch above.
ProcessFileRevised(f) ==
    IF IsCSVName(f.name) THEN ProcessFile(f) ELSE ProcessFileNonCSV(f)

\* Small files of either kind given to the revised processFile, with the
\* tasks of the small-file path.
NextRevised ==
    \/ \E f \in SmallFiles : ProcessFileRevised(f)
    \/ \E j \in 1..Len(jobs), ok \in BOOLEAN : NonCSVUploadSettle(j, ok)
    \/ \E k \in 1..Len(procs), lc \in BOOLEAN : ReaderProgress(k, lc)
    \/ \E k \in 1..Len(procs) : SmallLoaded(k)
    \/ \E k \in 1..Len(procs), ok \in BOOLEAN : SmallSaveSettle(k, ok)

SpecRevised == Init /\ [][NextRevised]_vars

\* ------------------------------------------------- tryParseCSV on its own
\* The characters of the enumerated texts: a letter, the comma, the two line
\* break characters (the "\r" is also whitespace to trim) and the quote.
ParseAlphabet == {"a", ",", "\n", "\r", "\""}
ShortTexts == UNION { [1..n -> ParseAlphabet] : n \in 0..MaxTextLen }
Caps == 0..MaxCap

\* lines joined by "\n"
RECURSIVE JoinLines(_)
JoinLines(ls) ==
    IF ls = <<>> THEN <<>>
    ELSE IF Len(ls) = 1 THEN ls[1]
    ELSE ls[1] \o <<"\n">> \o JoinLines(Tail(ls))

\* Texts of more than ten lines: ten lines of which at most one (line p) has
\* a comma, then m lines that all have one.
LateCommaTexts ==
    { JoinLines([i \in 1..SniffLines |-> IF i = p THEN <<"x", ",", "y">> ELSE <<"x">>]
                \o [i \in 1..m |-> <<"a", ",", "b">>]) :
        p \in 0..SniffLines, m \in 1..MaxLateLines }

\* A header and two data rows with quoted fields:
\*   h,k
\*   "1,1",2
\*   "He said ""hi""", x
QuotedText ==
    JoinLines(<< <<"h", ",", "k">>,
                 <<"\"", "1", ",", "1", "\"", ",", "2">>,
                 <<"\"", "H", "e", " ", "s", "a", "i", "d", " ", "\"", "\"", "h", "i",
                   "\"", "\"", "\"", ",", " ", "x">> >>)
\* Three data rows with Windows line ends, the second shorter and the third
\* longer than the header.
RaggedText ==
    <<"h", "1", ",", "h", "2", "\r", "\n", "r", "1", ",", "x", "\r", "\n",
      "r", "2", "\r", "\n", "\r", "\n", "r", "3", ",", "y", ",", "z">>
\* Two-line texts whose first field is any mix of quotes, letters and commas:
\*   <field>,k
\*   1,2
QuoteFieldTexts ==
    { f \o <<",", "k", "\n", "1", ",", "2">> :
        f \in UNION { [1..n -> {"\"", "a", ","}] : n \in 0..MaxFieldLen } }
LongTexts == LateCommaTexts \cup QuoteFieldTexts \cup {QuotedText, RaggedText}

ParseCall(t, r, c) == [text |-> t, maxRows |-> r, maxCols |-> c, result |-> Uncalled]
\* The calls explored: every short text with every pair of small limits, and
\* the long texts with the default limits (the only ones processFile uses)
\* and with the largest small ones.
InitParse ==
    /\ InitChat /\ InitUpload /\ InitPanel /\ cache = NoRecord
    /\ parse \in { ParseCall(t, r, c) : t \in ShortTexts, r \in Caps, c \in Caps }
               \cup { ParseCall(t, DefaultMaxRows, DefaultMaxCols) : t \in LongTexts }
               \cup { ParseCall(t, MaxCap, MaxCap) : t \in LongTexts }

\* tryParseCSV(text, maxRows, maxCols) returns.
TryParseCSVCall ==
    /\ parse.result = Uncalled
    /\ parse' = [parse EXCEPT !.result = TryParseCSV(parse.text, parse.maxRows, parse.maxCols)]
    /\ UNCHANGED <<chatVars, uploadVars, error, isProcessing, analyzeResult, jobs, tab, loads,
                   cleanResult, piiDetectionResult>>

NextParse == TryParseCSVCall

SpecParse == InitParse /\ [][NextParse]_vars

\* ------------------------------------------------------------ chat claims
\* The assistant bubble appended by request r (greeting, then a user message
\* and a bubble per request).
Bubble(r) == messages[2 * r + 1]
Requests == 1..Len(calls)

\* C3: a bubble that has left the pending state never changes again (content,
\* pending, error), and no bubble is both resolved and marked error.
C3_BubbleWrittenOnce ==
    [][ /\ \A i \in 1..Len(messages) :
             ~messages[i].pending => messages'[i] = messages[i]
        /\ \A i \in 1..Len(messages') :
             ~(messages'[i].via = "success" /\ messages'[i].error) ]_vars

\* Two settled requests, one bubble resolved and one an error bubble.
C3_Witness ==
    /\ Len(calls) >= 2
    /\ calls[1].phase = "settled" /\ calls[2].phase = "settled"
    /\ ~Bubble(1).pending /\ ~Bubble(2).pending
    /\ Bubble(1).error # Bubble(2).error

\* C4: once a request has settled and its gate window has passed, its bubble
\* is no longer pending (an error stashed before the gate is rendered by the
\* gate callback).
C4_SettledBubbleNotPending ==
    \A r \in Requests :
        (calls[r].phase = "settled" /\ r <= elapsed) => ~Bubble(r).pending

\* C5: a request that succeeded has the response text in its bubble, not an
\* error, whatever the earlier requests did.
C5_SuccessShowsResponse ==
    \A r \in Requests :
        calls[r].outcome = "success" =>
            /\ ~Bubble(r).pending /\ ~Bubble(r).error
            /\ Bubble(r).content \in { ResponseText(resp) : resp \in Responses }

\* C6: no error bubble holds an error observed during an earlier request than
\* the bubble's own, and a gate callback renders only an error observed
\* during its own request.
C6_NoStaleDelayedError ==
    \A i \in 1..Len(messages) :
        (messages[i].role = "assistant" /\ messages[i].error) =>
            /\ messages[i].src >= messages[i].owner
            /\ messages[i].via = "gate" => messages[i].src = messages[i].by

\* C7: a request that succeeded inside its gate window never marks any
\* message as an error.
C7_EarlySuccessShowsNoError ==
    \A r \in Requests :
        (calls[r].outcome = "success" /\ calls[r].early) =>
            \A i \in 1..Len(messages) : ~(messages[i].error /\ messages[i].by = r)

\* The primary attempt failed, the fallback succeeded inside the gate window.
C7_Witness ==
    \E r \in Requests :
        /\ calls[r].outcome = "success" /\ calls[r].early
        /\ calls[r].primaryErr # NULL
        /\ Bubble(r).content = "answer" /\ ~Bubble(r).error

\* C8: a request that failed for good after its gate window has an error
\* bubble holding that failure's message.
C8_LateFailureShowsItsError ==
    \A r \in Requests :
        (calls[r].outcome = "error" /\ ~calls[r].early) =>
            /\ ~Bubble(r).pending /\ Bubble(r).error
            /\ Bubble(r).content = ErrMsg(calls[r].primaryErr)

\* C9: no bubble is an error bubble before the gate window of its request
\* has passed.
C9_NoErrorBeforeGate ==
    \A i \in 1..Len(messages) :
        (messages[i].role = "assistant" /\ messages[i].error) =>
            messages[i].owner <= elapsed

\* A request failed for good inside its gate window: the error is stashed
\* and the bubble still shows "Thinking...".
C9_Witness ==
    \E r \in Requests :
        /\ r > elapsed
        /\ calls[r].outcome = "error"
        /\ Bubble(r).pending
        /\ delayedError = ErrMsg(calls[r].primaryErr)

\* C10: a submit with an empty or whitespace-only input changes neither the
\* messages nor isLoading nor delayedError and issues no network call; a
\* direct chatWithCopilot call with such a prompt throws 'Empty prompt'
\* without a fetch.
C10_BlankPromptRejected ==
    [][ /\ (Blank(input) /\ op'.name \in {"submit", "submitIgnored"}) =>
             (/\ UNCHANGED <<messages, isLoading, delayedError, calls>>
              /\ ~op'.fetch)
        /\ \A p \in Inputs :
             (Blank(p) /\ DirectCall(p)) =>
                 (op'.thrown = "Empty prompt" /\ ~op'.fetch) ]_vars

\* A whitespace-only input was submitted while nothing was loading.
C10_Witness ==
    /\ op.name = "submitIgnored"
    /\ input # <<>> /\ Blank(input)
    /\ ~isLoading

\* C11: once the hard timeout of a request has fired, the request is settled
\* as an error and its bubble is an error bubble holding the timeout message
\* (the gate has passed, so the error is rendered at the cancellation).
C11_TimeoutSettlesAsTimeoutError ==
    \A r \in Requests :
        calls[r].timeout = "fired" =>
            /\ calls[r].phase = "settled" /\ calls[r].outcome = "error"
            /\ ~Bubble(r).pending /\ Bubble(r).error
            /\ Bubble(r).content = TimeoutMsg

\* C12: every accepted submission eventually settles (isLoading returns to
\* false) although the remote service may never answer any request.
C12_EverySubmissionSettles == isLoading ~> ~isLoading

\* ---------------------------------------------------------- upload claims
\* What processFile(f) alone can make of fileMeta and tablePreview.
MetasOf(f) ==
    { NoFileMeta, MetaObj(f, Placeholder), MetaObj(f, Slice(f.text, PreviewChars)) }
TablesOf(f) == { NoTable, ParsedPreview(f) }

\* C1: once a newer processFile call (for another file) has started, no task
\* of an older call that took the large-file path changes fileMeta,
\* tablePreview or progress.
C1_StaleTasksChangeNothing ==
    [][ \A k \in 1..(Len(procs) - 1) :
            (/\ procs[k].large
             /\ procs[k].file # procs[Len(procs)].file
             /\ Background(k)) =>
                UNCHANGED <<fileMeta, tablePreview, progress>> ]_vars

\* C2: after a Clear followed by the selection of a different file B, the
\* displayed fileMeta and tablePreview hold nothing of the cleared file.
C2_NothingOfClearedFile ==
    LET n == Len(procs) IN
    (/\ n >= 2
     /\ procs[n].afterClear
     /\ \A j \in 1..(n - 1) : procs[j].file # procs[n].file)
    => (fileMeta \in MetasOf(procs[n].file) /\ tablePreview \in TablesOf(procs[n].file))

\* Every task of invocation k has run to its end.
ProcDone(p) ==
    /\ p.save \in {"none", "end"} /\ p.head \in {"none", "end"}
    /\ p.stream \in {"none", "end"} /\ p.reader \in {"none", "end"}

\* C13: between the start of one processFile call and the next call or
\* Clear, progress never decreases, and it is 100 when the last task of the
\* call has run (steps in which a read fails are left aside).
C13_ProgressMonotoneTo100 ==
    [][ (/\ Len(procs') = Len(procs) /\ Len(clears') = Len(clears) /\ procs # <<>>
         /\ ~\E k \in 1..Len(procs) : SmallError(k) \/ StreamError(k)) =>
            /\ progress' >= progress
            /\ (~ProcDone(procs[Len(procs)]) /\ ProcDone(procs'[Len(procs)])) =>
                    progress' = 100 ]_vars

\* C14: once a Clear whose delete succeeded is the last thing the user did
\* and all asynchronous work has run to its end, getLatestUpload finds no
\* metadata and no blob.
C14_ClearedCacheStaysEmpty ==
    (/\ clears # <<>>
     /\ \A c \in 1..Len(clears) : clears[c] = "deleted"
     /\ \A k \in 1..Len(procs) : ~procs[k].afterClear /\ ProcDone(procs[k]))
    => GetLatestUpload(cache) = NoRecord

\* C15: whenever uploadedFile and fileMeta are both set, fileMeta carries the
\* name and the size of uploadedFile (the file of the latest processFile call).
C15_MetaDescribesUploadedFile ==
    (uploadedFile # NoFile /\ fileMeta # NoFileMeta) =>
        (fileMeta.name = uploadedFile.name /\ fileMeta.size = uploadedFile.size)

\* Every save of the invocation was made and succeeded: the placeholder and
\* the refined one on the large path, the single one on the small path.
AllSaved(p) == p.okSaves = IF p.large THEN 2 ELSE 1

\* C16: after two processFile calls for different files, once all their
\* tasks have run, with every save made and successful and no Clear, the slot
\* holds the blob and the metadata of the second file.
C16_CacheHoldsLatestUpload ==
    (/\ Len(procs) = 2 /\ clears = <<>>
     /\ procs[1].file # procs[2].file
     /\ ProcDone(procs[1]) /\ ProcDone(procs[2])
     /\ AllSaved(procs[1]) /\ AllSaved(procs[2]))
    => (/\ cache # NoRecord
        /\ cache.file = procs[2].file
        /\ cache.meta.name = procs[2].file.name)

\* C17: in a large-file invocation the placeholder write is complete when
\* the head slice is decoded, and the decode precedes the refined write; so
\* when the invocation is the only one, has run to its end and both writes
\* succeeded, the slot carries the refined contentPreview.
C17_PlaceholderThenDecodeThenRefined ==
    \A k \in 1..Len(procs) :
        procs[k].large =>
            /\ procs[k].head = "saving" => procs[k].save = "end"
            /\ (Len(procs) = 1 /\ clears = <<>> /\ ProcDone(procs[k]) /\ AllSaved(procs[k])) =>
                    cache = [file |-> procs[k].file,
                             meta |-> MetaObj(procs[k].file,
                                              Slice(procs[k].file.text, PreviewChars))]

\* C18: a cache operation that settles changes fileMeta, tablePreview,
\* progress and error in the same way whether it succeeded or was rejected:
\* a save or a delete changes none of them, except that the small-file path
\* sets progress to 100 after its save; a rejected getLatestUpload changes
\* none of them. No cache failure sets the error.
C18_CacheFailuresSwallowed ==
    [][ /\ \A k \in 1..Len(procs), ok \in BOOLEAN :
             /\ (PlaceholderSaveSettle(k, ok) \/ RefinedSaveSettle(k, ok)) =>
                    UNCHANGED <<fileMeta, tablePreview, progress, error>>
             /\ (SmallSaveSettle(k, ok) \/ SmallFallbackSaveSettle(k, ok)) =>
                    (progress' = 100 /\ UNCHANGED <<fileMeta, tablePreview, error>>)
        /\ \A c \in 1..Len(clears), ok \in BOOLEAN :
             ClearSettle(c, ok) => UNCHANGED <<fileMeta, tablePreview, progress, error>>
        /\ \A l \in 1..Len(loads) :
             LoadSettle(l, FALSE) => UNCHANGED <<fileMeta, tablePreview, progress, error>>
      ]_vars

\* The save of a small file was rejected: the preview, progress 100 and no
\* error are displayed all the same, and the slot is empty.
C18_Witness ==
    /\ Len(procs) = 1 /\ ~procs[1].large
    /\ procs[1].reader = "end" /\ procs[1].okSaves = 0
    /\ fileMeta = MetaObj(procs[1].file, Slice(procs[1].file.text, PreviewChars))
    /\ progress = 100 /\ error = NULL
    /\ cache = NoRecord

\* meta has the name and size of f, its type (or "unknown"), and as its
\* preview the first PreviewChars characters of the decoded text.
IsDecodedMeta(meta, f) ==
    /\ meta.name = f.name /\ meta.size = f.size
    /\ meta.type = (IF f.type = "" THEN "unknown" ELSE f.type)
    /\ Len(meta.contentPreview) = Min(Len(f.text), PreviewChars)
    /\ \A i \in 1..Len(meta.contentPreview) : meta.contentPreview[i] = f.text[i]

\* meta has the name, size and type of f and a preview saying that decoding
\* failed.
IsUndecodedMeta(meta, f) ==
    /\ meta.name = f.name /\ meta.size = f.size
    /\ meta.type = (IF f.type = "" THEN "unknown" ELSE f.type)
    /\ meta.contentPreview = <<"Unable to decode preview.">>

\* C19: on the small-file path, once the full read has completed fileMeta
\* is the file's name/size/type with the head-truncated text and a save is
\* under way; if decoding failed fileMeta says so, tablePreview is null and
\* a save is under way all the same; when the save has settled (or was
\* rejected) progress is 100.
C19_SmallFileOutcome ==
    procs # <<>> =>
        LET p == procs[1]
            f == p.file IN
        /\ p.reader = "saving" => IsDecodedMeta(fileMeta, f)
        /\ p.reader = "savingUndecoded" =>
               (IsUndecodedMeta(fileMeta, f) /\ tablePreview = NoTable)
        /\ (p.reader = "end" /\ fileMeta # NoFileMeta) =>
               /\ progress = 100
               /\ IsDecodedMeta(fileMeta, f) \/
                  (IsUndecodedMeta(fileMeta, f) /\ tablePreview = NoTable)

\* Decoding failed: the fallback metadata is displayed, its save has
\* settled and progress is 100.
C19_Witness ==
    /\ procs # <<>> /\ procs[1].reader = "end" /\ procs[1].okSaves = 1
    /\ IsUndecodedMeta(fileMeta, procs[1].file) /\ tablePreview = NoTable
    /\ progress = 100

\* C20: after the FileReader of the small-file path has reported an error,
\* the error state is set (and no network call was made).
C20_ReadErrorSurfaced ==
    [][ \A k \in 1..Len(procs) :
            SmallError(k) => (error' # NULL /\ jobs' = jobs) ]_vars

\* C21: the message list is append-only. An accepted submit appends the user
\* message (the trimmed input) followed by one pending assistant message and
\* nothing else ever changes the length; every message keeps its position
\* (role and owning request), and a user message never changes.
C21_MessagesAppendOnly ==
    [][ /\ Len(messages') >= Len(messages)
        /\ \A i \in 1..Len(messages) :
             /\ messages'[i].role = messages[i].role
             /\ messages'[i].owner = messages[i].owner
             /\ messages[i].role = "user" =>
                    /\ messages'[i].pending = messages[i].pending
                    /\ messages'[i].error = messages[i].error
                    /\ messages'[i].via = messages[i].via
                    /\ messages'[i].content = messages[i].content
        /\ op'.name = "submit" =>
             /\ Len(messages') = Len(messages) + 2
             /\ messages'[Len(messages) + 1].role = "user"
             /\ messages'[Len(messages) + 1].content = Trim(input)
             /\ messages'[Len(messages) + 2].role = "assistant"
             /\ messages'[Len(messages) + 2].pending
        /\ op'.name # "submit" => Len(messages') = Len(messages) ]_vars

\* Two submissions, the first ended as an error bubble and the second was
\* answered: greeting, user, bubble, user, bubble.
C21_Witness ==
    /\ Len(calls) = 2 /\ Len(messages) = 5
    /\ messages[2].role = "user" /\ messages[2].content = calls[1].prompt
    /\ messages[4].role = "user" /\ messages[4].content = calls[2].prompt
    /\ messages[3].error /\ messages[5].via = "success"

\* C22: a submission makes at most two network attempts. The fallback request
\* is sent only in the step in which the primary attempt fails, once; a
\* submission ends as a failure only after both attempts failed, and what its
\* catch block then shows or stashes is the message of the primary error.
C22_OneFallbackThenPrimaryError ==
    [][ /\ \A r \in 1..Len(calls') :
             /\ calls'[r].attempts \in {1, 2}
             /\ calls'[r].attempts = 2 <=> calls'[r].primaryErr # NULL
             /\ calls'[r].outcome = "error" => calls'[r].attempts = 2
        /\ \A r \in Requests :
             /\ calls'[r].attempts # calls[r].attempts =>
                    /\ calls[r].phase = "primary" /\ calls[r].attempts = 1
                    /\ op'.name \in {"primaryReject", "hardTimeout"} /\ op'.fetch
                    /\ calls'[r].primaryErr \in PrimaryErrs \cup {TimeoutMsg}
             /\ (calls[r].outcome = "none" /\ calls'[r].outcome = "error") =>
                    /\ calls[r].attempts = 2
                    /\ calls'[r].primaryErr = calls[r].primaryErr
                    /\ delayedError' # delayedError =>
                           delayedError' = ErrMsg(calls[r].primaryErr)
                    /\ \A i \in 1..Len(messages) :
                           messages'[i] # messages[i] =>
                               messages'[i].content = ErrMsg(calls[r].primaryErr)
        /\ (op'.fetch /\ op'.name \notin {"submit", "directCall"}) =>
               \E r \in Requests : calls'[r].attempts = calls[r].attempts + 1 ]_vars

\* Both attempts of a submission failed after its gate window, the primary by
\* the hard timeout: its bubble shows the timeout message.
C22_Witness ==
    \E r \in Requests :
        /\ calls[r].attempts = 2 /\ calls[r].outcome = "error"
        /\ calls[r].primaryErr = TimeoutMsg
        /\ Bubble(r).error /\ Bubble(r).content = TimeoutMsg

\* ------------------------------------------------------ tryParseCSV claims
Called == parse.result # Uncalled
\* The positions at which a non-blank line of the text begins: the first
\* character of a line (lines end at "\n") that is not whitespace.
LineStarts(text) ==
    { i \in 1..Len(text) :
        /\ text[i] \notin WS
        /\ \A j \in 1..(i - 1) :
              text[j] \notin WS => \E k \in (j + 1)..(i - 1) : text[k] = "\n" }
\* The line that begins at position i contains a comma.
LineHasComma(text, i) ==
    \E j \in i..Len(text) :
        text[j] = "," /\ \A k \in i..(j - 1) : text[k] # "\n"

\* C23: a text with fewer than 2 non-blank lines (empty and whitespace-only
\* lines are not counted) makes tryParseCSV return null.
C23_FewLinesNotTabular ==
    (Called /\ Cardinality(LineStarts(parse.text)) < 2) => parse.result = NoTable

\* A single non-blank line with two commas, a bare "\r" between them, was
\* parsed with limits that keep rows: the result is null.
C23_Witness ==
    /\ Called /\ parse.result = NoTable
    /\ Cardinality(LineStarts(parse.text)) = 1
    /\ Cardinality({ i \in 1..Len(parse.text) : parse.text[i] = "," }) = 2
    /\ Includes(parse.text, "\r")
    /\ parse.maxRows > 0 /\ parse.maxCols > 0

\* The non-blank lines among the first SniffLines ones, and the later ones,
\* that contain a comma (each given by the position at which it begins).
EarlyCommaLines(text) ==
    { i \in LineStarts(text) :
        /\ Cardinality({ j \in LineStarts(text) : j < i }) < SniffLines
        /\ LineHasComma(text, i) }
LateCommaLines(text) ==
    { i \in LineStarts(text) :
        /\ Cardinality({ j \in LineStarts(text) : j < i }) >= SniffLines
        /\ LineHasComma(text, i) }

\* C24: when fewer than 2 of the first 10 non-blank lines contain a comma,
\* tryParseCSV returns null, however many later lines contain commas.
C24_FewCommaLinesNotTabular ==
    (Called /\ Cardinality(EarlyCommaLines(parse.text)) < 2) => parse.result = NoTable

\* One comma line among the first ten lines and two after them: null.
C24_Witness ==
    /\ Called /\ parse.result = NoTable
    /\ Cardinality(EarlyCommaLines(parse.text)) = 1
    /\ Cardinality(LateCommaLines(parse.text)) = 2
    /\ parse.maxRows = DefaultMaxRows

\* The position at which the n-th non-blank line begins.
NthStart(text, n) ==
    CHOOSE i \in LineStarts(text) :
        Cardinality({ j \in LineStarts(text) : j < i }) = n - 1
\* Position j lies in the line that begins at i.
InLine(text, i, j) == j \in i..Len(text) /\ \A k \in i..j : text[k] # "\n"
\* The number of double quotes of the line beginning at i that precede j.
QuotesBefore(text, i, j) == Cardinality({ k \in i..(j - 1) : text[k] = "\"" })
\* The number of fields of the line that begins at i: one more than its
\* commas that are preceded by an even number of double quotes.
FieldCount(text, i) ==
    1 + Cardinality({ j \in i..Len(text) :
                        /\ InLine(text, i, j) /\ text[j] = ","
                        /\ QuotesBefore(text, i, j) % 2 = 0 })

\* C25 as stated: in every non-null result every data row has exactly as
\* many cells as there are headers.
C25_RowsAsWideAsHeaders ==
    (Called /\ parse.result # NoTable) =>
        \A n \in 1..Len(parse.result.rows) :
            Len(parse.result.rows[n]) = Len(parse.result.headers)

\* C25 as amended: in every non-null result every data row has as many cells
\* as its line has fields, but no more than there are headers; a line with
\* fewer fields than the header gives a shorter row.
C25_RowsNoWiderThanHeaders ==
    (Called /\ parse.result # NoTable) =>
        \A n \in 1..Len(parse.result.rows) :
            Len(parse.result.rows[n]) =
                Min(FieldCount(parse.text, NthStart(parse.text, n + 1)),
                    Len(parse.result.headers))

\* A result with a row shorter than the header and a row whose line had
\* more fields than the header.
C25_Witness ==
    /\ Called /\ parse.result # NoTable
    /\ \E n \in 1..Len(parse.result.rows) :
          Len(parse.result.rows[n]) < Len(parse.result.headers)
    /\ \E n \in 1..Len(parse.result.rows) :
          /\ FieldCount(parse.text, NthStart(parse.text, n + 1)) > Len(parse.result.headers)
          /\ Len(parse.result.rows[n]) = Len(parse.result.headers)

\* What tryParseCSV is to make of RaggedText with the default limits.
RaggedTable ==
    [headers |-> << <<"h", "1">>, <<"h", "2">> >>,
     rows |-> << << <<"r", "1">>, <<"x">> >>,
                 << <<"r", "2">> >>,
                 << <<"r", "3">>, <<"y">> >> >>,
     origin |-> "csv"]

\* C26: in every non-null result of tryParseCSV(text, maxRows, maxCols) the
\* headers number min(fields of the first non-blank line, maxCols), no data
\* row is wider than the headers, and the data rows are the non-blank lines
\* that follow the header, in input order and at most maxRows of them: the
\* n-th row has the fields of the (n+1)-th non-blank line, and the lines kept
\* (the header among them) number min(non-blank lines, maxRows).
C26_HeaderWidthAndRowOrder ==
    (Called /\ parse.result # NoTable) =>
        LET t == parse.result
            text == parse.text IN
        /\ Len(t.headers) = Min(FieldCount(text, NthStart(text, 1)), parse.maxCols)
        /\ Len(t.rows) <= parse.maxRows
        /\ Len(t.rows) + 1 = Min(Cardinality(LineStarts(text)), parse.maxRows)
        /\ \A n \in 1..Len(t.rows) :
              /\ Len(t.rows[n]) <= Len(t.headers)
              /\ Len(t.rows[n]) = Min(FieldCount(text, NthStart(text, n + 1)), Len(t.headers))
        /\ (text = RaggedText /\ parse.maxRows = DefaultMaxRows
                              /\ parse.maxCols = DefaultMaxCols) => t = RaggedTable

\* The ragged text (4 non-blank lines) parsed with a smaller maxRows: the
\* header and the first maxRows - 1 of the lines after it are kept.
C26_Witness ==
    /\ Called /\ parse.text = RaggedText /\ parse.result # NoTable
    /\ parse.maxRows < Cardinality(LineStarts(parse.text))
    /\ parse.result.headers = RaggedTable.headers
    /\ parse.result.rows = Slice(RaggedTable.rows, parse.maxRows - 1)
    /\ parse.result.rows # <<>>

\* The rule as C27 words it, applied to one line: a double quote that is
\* immediately followed by a second one emits one literal quote, any other
\* double quote toggles quote mode; a comma outside quote mode ends a field;
\* every field is trimmed.
RECURSIVE QuoteRuleScan(_, _, _, _, _)
QuoteRuleScan(line, i, cur, inQuotes, out) ==
    IF i > Len(line) THEN Append(out, cur)
    ELSE IF line[i] = "\""
         THEN IF i + 1 <= Len(line) /\ line[i + 1] = "\""
              THEN QuoteRuleScan(line, i + 2, Append(cur, "\""), inQuotes, out)
              ELSE QuoteRuleScan(line, i + 1, cur, ~inQuotes, out)
         ELSE IF line[i] = "," /\ ~inQuotes
              THEN QuoteRuleScan(line, i + 1, <<>>, inQuotes, Append(out, cur))
              ELSE QuoteRuleScan(line, i + 1, Append(cur, line[i]), inQuotes, out)
QuoteRuleTokens(line) ==
    LET out == QuoteRuleScan(line, 1, <<>>, FALSE, <<>>)
    IN [j \in 1..Len(out) |-> Trim(out[j])]

\* The same rule with the escape confined to quote mode, stated without a
\* scan.  Quote mode is on at a position iff an odd number of double quotes
\* precede it (an escaped pair counts two).  In a run of consecutive double
\* quotes the pairs are taken from the left, after the opening quote if the
\* run begins outside quote mode: the k-th quote of the run is the first of
\* an escaped pair iff a quote follows it and k has the parity of the number
\* of quotes before the run.
QuotesUpTo(line, j) == Cardinality({ k \in 1..(j - 1) : line[k] = "\"" })
RunStart(line, j) ==
    CHOOSE b \in 1..j :
        /\ \A k \in b..j : line[k] = "\""
        /\ b = 1 \/ line[b - 1] # "\""
EscapedPairAt(line, j) ==
    /\ line[j] = "\"" /\ j < Len(line) /\ line[j + 1] = "\""
    /\ (j - RunStart(line, j) + 1) % 2 = QuotesUpTo(line, RunStart(line, j)) % 2
\* The commas that end a field, and the positions whose character is emitted.
Separators(line) ==
    { j \in 1..Len(line) : line[j] = "," /\ QuotesUpTo(line, j) % 2 = 0 }
Emitted(line) ==
    { j \in 1..Len(line) :
        \/ line[j] # "\"" /\ j \notin Separators(line)
        \/ EscapedPairAt(line, j) }
\* The n-th smallest element of a set of positions.
NthOf(S, n) == CHOOSE x \in S : Cardinality({ y \in S : y < x }) = n - 1
\* The field between the (n-1)-th and the n-th separator, trimmed.
FieldOf(line, n) ==
    LET seps == Separators(line)
        lo == IF n = 1 THEN 0 ELSE NthOf(seps, n - 1)
        hi == IF n = Cardinality(seps) + 1 THEN Len(line) + 1 ELSE NthOf(seps, n)
        P == { j \in Emitted(line) : lo < j /\ j < hi }
    IN Trim([m \in 1..Cardinality(P) |-> line[NthOf(P, m)]])
FieldsOf(line) == [n \in 1..(Cardinality(Separators(line)) + 1) |-> FieldOf(line, n)]

\* What the two data rows of QuotedText decode to.
QuotedRows ==
    << << <<"1", ",", "1">>, <<"2">> >>,
       << <<"H", "e", " ", "s", "a", "i", "d", " ", "\"", "h", "i", "\"">>, <<"x">> >> >>

\* C27 as stated: the header and the rows of a result are the fields the
\* quote rule of the claim yields for their lines (a double quote followed by
\* a second one is an escape wherever it stands), cut to the column count.
C27_QuoteRuleAsStated ==
    (Called /\ parse.result # NoTable) =>
        LET lines == NonBlankLines(parse.text) IN
        /\ parse.result.headers = Slice(QuoteRuleTokens(lines[1]), parse.maxCols)
        /\ \A n \in 1..Len(parse.result.rows) :
              parse.result.rows[n] =
                  Slice(QuoteRuleTokens(lines[n + 1]), Len(parse.result.headers))

\* C27 as amended: a double quote is an escape (one literal quote) only in
\* quote mode and when a second double quote follows it; any other double
\* quote toggles quote mode and is dropped; a comma ends a field only outside
\* quote mode; every field is trimmed.  "1,1",2 gives ["1,1", "2"] and
\* "He said ""hi""" gives He said "hi".
C27_QuoteAwareTokenization ==
    (Called /\ parse.result # NoTable) =>
        LET lines == NonBlankLines(parse.text) IN
        /\ parse.result.headers = Slice(FieldsOf(lines[1]), parse.maxCols)
        /\ \A n \in 1..Len(parse.result.rows) :
              parse.result.rows[n] = Slice(FieldsOf(lines[n + 1]), Len(parse.result.headers))
        /\ (parse.text = QuotedText /\ parse.maxRows = DefaultMaxRows
                                    /\ parse.maxCols = DefaultMaxCols) =>
               parse.result.rows = QuotedRows

\* The two lines of the claim were tokenized.
C27_Witness ==
    /\ Called /\ parse.text = QuotedText
    /\ parse.result # NoTable /\ parse.result.rows = QuotedRows

\* The text of f passes the sniff test: at least two non-blank lines, and
\* at least two of the first ten of them contain a comma.
PassesSniff(f) ==
    Cardinality(LineStarts(f.text)) >= 2 /\ Cardinality(EarlyCommaLines(f.text)) >= 2
\* The raw text preview of f is displayed, without a table and without an error.
ShowsRawText(f) ==
    /\ tablePreview = NoTable
    /\ fileMeta # NoFileMeta
    /\ fileMeta.contentPreview = Slice(f.text, PreviewChars)
    /\ error = NULL

\* C28: once the processing of a file whose name does not end in .csv, or
\* whose text fails the sniff test, has ended (it being the only file
\* processed), tablePreview is null, fileMeta.contentPreview holds the raw
\* text preview of the file, and the error is not set.
C28_NonTabularShowsRawText ==
    /\ (procs = <<>> /\ Len(jobs) = 1 /\ jobs[1].state \in {"uploaded", "uploadFailed"}) =>
            ShowsRawText(jobs[1].file)
    /\ (jobs = <<>> /\ Len(procs) = 1 /\ ProcDone(procs[1])
         /\ (~IsCSVName(procs[1].file.name) \/ ~PassesSniff(procs[1].file))) =>
            ShowsRawText(procs[1].file)

\* C29: the cache is read once per mount: only the getLatestUpload of the
\* first run of the effect (the mount) may set fileMeta or uploadedFile; the
\* settling of any later run, such as the one started by switching back to
\* the "processing" tab, changes neither (the first read having been
\* applied: loadedFromCache).
C29_CacheReadOncePerMount ==
    [][ \A l \in 2..Len(loads), ok \in BOOLEAN :
            (loadedFromCache /\ LoadSettle(l, ok)) =>
                UNCHANGED <<fileMeta, uploadedFile>> ]_vars

\* The streaming pass of invocation p (either strategy) is over.
PassOver(p) == p.stream = "end" \/ p.reader = "end"

\* C30: in the large-file path neither task waits for the other.  While the
\* head slice is being read its onload can run whatever the state of the
\* streaming pass, and when it has run the decoded preview and the parsed
\* table are displayed; while the pass is under way it can go on and end
\* whatever the state of the head read, and when it is over (done or
\* failed) progress is 100.
C30_PassAndPreviewIndependent ==
    \A k \in 1..Len(procs) :
        LET p == procs[k] IN
        p.large =>
            /\ p.head = "reading" => ENABLED HeadLoaded(k)
            /\ p.stream = "reading" =>
                   ENABLED (StreamChunk(k) \/ StreamDone(k)) /\ ENABLED StreamError(k)
            /\ p.reader = "reading" => ENABLED FallbackLoadEnd(k)
            /\ p.head = "saving" =>
                   /\ fileMeta.contentPreview = Slice(p.file.text, PreviewChars)
                   /\ tablePreview = ParsedPreview(p.file)
            /\ PassOver(p) => progress = 100

\* The streaming pass failed after its first chunk: progress is 100, and the
\* head slice has been decoded all the same.
C30_Witness ==
    /\ Len(procs) = 1 /\ procs[1].large
    /\ procs[1].stream = "end" /\ procs[1].nread = 1
    /\ procs[1].head = "saving"
    /\ fileMeta.contentPreview = Slice(procs[1].file.text, PreviewChars)
    /\ progress = 100

\* C31: where progress is synthesized (a FileReader whose progress events
\* carry no length), a tick adds 5 while progress is below 90 and nothing
\* otherwise, so a tick never brings progress to 100; the end of the read
\* sets 100; a read error sets progress to 0, and it stays 0 afterwards.
C31_HeuristicProgress ==
    [][ \A k \in 1..Len(procs) :
          /\ ReaderProgress(k, FALSE) =>
                /\ progress' = (IF progress < 90 THEN progress + 5 ELSE progress)
                /\ progress < 100 => progress' < 100
          /\ FallbackLoadEnd(k) => progress' = 100
          /\ (FallbackError(k) \/ SmallError(k)) => progress' = 0
          /\ procs[k].reader = "failed" => progress' = 0 ]_vars

\* C32: in the streaming pass progress becomes 100 only when every byte of
\* the file has been read, and a read that fails (reader.read() rejects, or
\* anything in the pass throws) never leaves progress at 100.
C32_StreamErrorNeverCompletes ==
    [][ \A k \in 1..Len(procs) :
          procs[k].stream = "reading" =>
              /\ progress' = 100 => procs'[k].loaded = procs[k].file.size
              /\ StreamError(k) => progress' < 100 ]_vars

\* The bubbles whose own request has not settled yet.
UnsettledBubbles(msgs, cs) ==
    { i \in 1..Len(msgs) :
        /\ msgs[i].role = "assistant" /\ msgs[i].owner > 0
        /\ cs[msgs[i].owner].phase # "settled" }

\* C33: a submit made while isLoading is true appends no message, issues no
\* network call and leaves delayedError and input as they are; hence at most
\* one bubble at a time belongs to a request that has not settled.
C33_OneRequestInFlight ==
    [][ /\ (isLoading /\ op'.name \in {"submit", "submitIgnored"}) =>
             (/\ UNCHANGED <<messages, input, delayedError, calls>>
              /\ ~op'.fetch)
        /\ Cardinality(UnsettledBubbles(messages', calls')) <= 1 ]_vars

\* A submit was ignored while the second request, accepted after the first
\* had settled, was still in flight.
C33_Witness ==
    /\ isLoading /\ op.name = "submitIgnored"
    /\ Len(calls) = 2
    /\ calls[1].phase = "settled" /\ calls[2].phase # "settled"
    /\ UnsettledBubbles(messages, calls) = {5}

\* C34: when a request settles, the only bubble written is the one that
\* request created, and what is written is that request's own outcome.
C34_SettlementWritesOwnBubble ==
    [][ \A r \in 1..Len(calls) :
          (calls[r].phase # "settled" /\ calls'[r].phase = "settled") =>
              \A i \in 1..Len(messages) :
                  messages'[i] # messages[i] =>
                      (messages[i].owner = r /\ messages'[i].src = r) ]_vars

\* C35: when the getLatestUpload of the mount settles after a processFile
\* call has started, it leaves fileMeta and uploadedFile as that call (and
\* its tasks) made them, and loadedFromCache is false afterwards (stated for
\* a slot that holds the record of another file than the one selected).
C35_LateCacheLoadKeepsUpload ==
    [][ \A ok \in BOOLEAN :
          (/\ procs # <<>>
           /\ cache # NoRecord /\ cache.meta.name # procs[1].file.name
           /\ LoadSettle(1, ok)) =>
              (UNCHANGED <<fileMeta, uploadedFile>> /\ ~loadedFromCache') ]_vars

\* C36: loadedFromCache goes with metadata that came from getLatestUpload:
\* once processFile (its start or one of its tasks) has set fileMeta for a
\* selected file, loadedFromCache is false.
C36_UploadDropsCacheFlag ==
    [][ (procs' # procs /\ fileMeta' # fileMeta) => ~loadedFromCache' ]_vars

\* C37: a table preview is on screen only together with the metadata of the
\* file it was parsed from: tablePreview is null whenever fileMeta is null,
\* and otherwise it is the table parsed from the text of a selected file
\* whose name and size fileMeta carries.
C37_TableMatchesMeta ==
    tablePreview # NoTable =>
        /\ fileMeta # NoFileMeta
        /\ \E k \in 1..Len(procs) :
              /\ fileMeta.name = procs[k].file.name
              /\ fileMeta.size = procs[k].file.size
              /\ tablePreview = ParsedPreview(procs[k].file)

\* The states of a job whose remote call has not settled.
RemoteCalls == {"inflight", "detecting", "cleaning"}

UploadGone(j) == uploadedFile = NoFile \/ uploadedFile.name # jobs[j].file

\* C39: a response of analyzeDataset or detectPII that arrives after the
\* upload it was computed for has been cleared or replaced sets neither
\* analyzeResult nor piiDetectionResult (stated for responses that arrive
\* when no Clear handler is still waiting for its deleteLatestUpload).
C39_NoResultForClearedUpload ==
    [][ \A j \in 1..Len(jobs) :
          (/\ UploadGone(j)
           /\ \A c \in 1..Len(clears) : clears[c] # "deleting"
           /\ jobs[j].state \in {"inflight", "detecting"}
           /\ jobs'[j].state = "end") =>
              UNCHANGED <<analyzeResult, piiDetectionResult>> ]_vars

====
